---------------------------- MODULE Spec2Model ----------------------------
(***************************************************************************)
(* Model of the real-time synchronisation client of clash-master's web     *)
(* dashboard.                                                              *)
(*                                                                         *)
(*   - useStatsWebSocket (src/apps/web/lib/websocket.ts): the push         *)
(*     connection: connect / cleanup / disconnect, the transport event     *)
(*     handlers, the reconnect backoff, the subscribe effect and the       *)
(*     enable effect.                                                      *)
(*   - DashboardPage (src/unnamed/part_000): the consumer that feeds the   *)
(*     hook, writes push frames into the query cache and enables or        *)
(*     disables the pull queries.                                          *)
(*                                                                         *)
(* The browser's WebSocket is the environment.  A socket is CONNECTING,    *)
(* OPEN, CLOSING or CLOSED; a server-initiated closing handshake makes an  *)
(* OPEN socket CLOSING before its close event is delivered; a failed       *)
(* connection delivers error and then close in one task.  React is         *)
(* modelled with a synchronous flush: the render and the effects that a    *)
(* handler's state updates cause are part of the handler's step.           *)
(***************************************************************************)
EXTENDS Integers, Sequences, FiniteSets, TLC

(***************************************************************************)
(* Bounds of the model.                                                    *)
(***************************************************************************)
\* sockets that exist at once with handlers attached or referenced by wsRef
MaxSockets == 2
\* reconnectAttemptsRef is not advanced past this value where the backoff is
\* observed, and not past MaxStreak elsewhere
MaxAttempts == 6
MaxStreak == 2
\* reconnect timers whose handle was overwritten while they were pending
MaxLeaked == 1
\* changesWhileClosed saturates here
MaxChanges == 3
\* pull requests in flight at once
MaxInflight == 1
\* pings sent since the last pong that are counted
\* times the consumer replaces its callbacks
MaxCallbacks == 2
\* loadProxyDetails calls awaiting their responses at one time
MaxPending == 2
\* pages of the domain list
MaxPages == 14
MaxUnanswered == 2

(***************************************************************************)
(* Program constants.                                                      *)
(***************************************************************************)
baseReconnectDelayMs == 3000
reducedIntervalMs == 30000
defaultIntervalMs == 5000
maxReconnectDelayMs == 30000

Undef == 0
BackendIds == {1, 2}
Ranges == {1, 2}
SockIds == 1..MaxSockets

ConnectionStatus == {"connecting", "connected", "disconnected", "error"}
ReadyState == {"NONE", "CONNECTING", "OPEN", "CLOSING", "ERRORED", "CLOSED"}

VARIABLES
  \* ---- useStatsWebSocket: options
  mounted,              \* the hook's effects have run at least once
  enabled,              \* options.enabled
  backendId,            \* options.backendId (Undef or a backend id)
  range,                \* options.range (an index of a {start, end} pair)
  \* ---- useStatsWebSocket: state and refs
  status,               \* useState<ConnectionStatus>
  lastMessage,          \* useState<StatsSummary | null>
  wsRef,                \* id of the socket in wsRef.current, 0 for null
  reconnectTimerRef,    \* "null", "pending" or "fired" (a stale handle)
  pingIntervalRef,      \* "null" or "running"
  reconnectAttemptsRef,
  latency,              \* useState<number | null>: "null" or "measured"
  lastPingTimeRef,      \* 0, or 1 for the time of the last ping sent
  callbacksRef,         \* onMessageRef..onErrorRef: which callbacks they hold
  trackLastMessageRef,  \* trackLastMessageRef.current
  \* ---- the environment
  sock,                 \* ready state of every socket that still matters
  leakedReconnect,      \* pending reconnect timers no ref points to
  leakedPing,           \* some running ping interval has no ref pointing to it
  subs,                 \* descriptors the server received on the open socket
  \* ---- DashboardPage
  activeTab,            \* useState("overview")
  autoRefresh,          \* useState(true)
  timePreset,           \* useState<TimePreset>("24h")
  queryCache,           \* the query client's entry of every stats query key
  inflight,             \* query keys with a pull request in flight
  queryErrors,          \* query keys whose query holds an error
  pollTimers,           \* the running intervals of the polling effects
  \* ---- getWsUrl: what it reads, and the URL connect() last resolved
  runtimeConfig,        \* window.__RUNTIME_CONFIG__: [WS_URL, WS_PORT, WS_HOST]
  processEnv,           \* [NEXT_PUBLIC_WS_URL, NEXT_PUBLIC_WS_PORT]
  location,             \* window.location, or NoWindow on the server
  wsUrl,                \* const wsUrl = getWsUrl()
  lastQueryWithDefinedData, \* per view, the last observed key that had data
  \* ---- InteractiveProxyStats (part_001): the proxy detail panel
  chartData,            \* the proxies of the data prop, in chart order
  selectedProxy,        \* useState<string | null>(null)
  proxyDomains,         \* useState<DomainStats[]>([])
  proxyIPs,             \* useState<IPStats[]>([])
  loading,              \* useState(false)
  detailRequests,       \* per proxy, the loadProxyDetails calls still awaiting
  domainPage,           \* useState(1)
  domainTotalPages,     \* Math.ceil(filteredDomains.length / domainPageSize)
  pageNumbers,          \* what getPageNumbers returned for the pagination row
  \* ---- the service worker (layout.tsx 86-158)
  swCache,              \* the requests the cache clash-master-v1 answers
  swEvent,              \* the last fetch event and what the worker did with it
  \* ---- history variables
  pulled,               \* the pull result the last step wrote, if it wrote one
  tx,                   \* frames sent by the last step
  observe,              \* the histories and steps this specification records
  last,                 \* the last step: [op, stale]
  lastDelay,            \* the delay the last onclose computed
  wanted,               \* enable/connect() was the consumer's last word
  streak,               \* closes since the last open, disable or enable
  closesSinceOpen,      \* closes since the last open
  prevStreak,           \* the last open ended a streak of two closes or more
  changesWhileClosed,   \* parameter changes since a socket was last open
  fresh,                \* a frame for the current subscription has arrived
  unanswered,           \* pings sent on this connection since its last pong
  discarded,            \* a frame was discarded on this connection
  invoked               \* the callbacks the last step called, or NoCallback

optVars == <<mounted, enabled, backendId, range>>
connVars == <<status, wsRef, reconnectTimerRef, pingIntervalRef,
              reconnectAttemptsRef, sock, leakedReconnect, leakedPing>>
dashVars ==
  <<activeTab, autoRefresh, timePreset, queryCache, inflight, queryErrors>>
histVars == <<observe, tx, last, lastDelay, wanted, streak, closesSinceOpen, prevStreak,
              changesWhileClosed, fresh, pulled, lastQueryWithDefinedData>>
probeVars == <<latency, lastPingTimeRef, unanswered, discarded>>
urlVars == <<runtimeConfig, processEnv, location, wsUrl>>
callbackVars == <<callbacksRef, trackLastMessageRef>>
panelVars ==
  <<chartData, selectedProxy, proxyDomains, proxyIPs, loading, detailRequests>>
pagerVars == <<domainPage, domainTotalPages, pageNumbers>>
swVars == <<swCache, swEvent>>
uiVars == <<panelVars, pagerVars, swVars>>
vars ==
  <<optVars, connVars, lastMessage, subs, histVars, dashVars, probeVars,
    pollTimers, urlVars, callbackVars, invoked, uiVars>>

(***************************************************************************)
(* Helpers.                                                                *)
(***************************************************************************)
Min(a, b) == IF a < b THEN a ELSE b

RECURSIVE Pow2(_)
Pow2(n) == IF n = 0 THEN 1 ELSE 2 * Pow2(n - 1)

(***************************************************************************)
(* getWsUrl (websocket.ts 57-71).  An unset value is "undefined"; that and *)
(* the empty string are the falsy values || and if treat alike.            *)
(***************************************************************************)
Truthy(x) == x \notin {"undefined", ""}
\* typeof window === 'undefined'
NoWindow ==
  [protocol |-> "undefined", hostname |-> "undefined", port |-> "undefined"]
HasWindow == location # NoWindow
Or(x, y) == IF Truthy(x) THEN x ELSE y

\* Mutant: the environment value ahead of the runtime config.
getWsUrlEnvFirst ==
  LET wsPort == Or(runtimeConfig.WS_PORT,
                   Or(processEnv.NEXT_PUBLIC_WS_PORT, "3002"))
  IN IF Truthy(processEnv.NEXT_PUBLIC_WS_URL)
     THEN processEnv.NEXT_PUBLIC_WS_URL
     ELSE IF Truthy(runtimeConfig.WS_URL) THEN runtimeConfig.WS_URL
     ELSE IF HasWindow
     THEN (IF location.protocol = "https:" THEN "wss" ELSE "ws") \o "://" \o
          Or(runtimeConfig.WS_HOST, location.hostname) \o ":" \o wsPort
     ELSE "ws://localhost:" \o wsPort

getWsUrl ==
  LET wsPort == Or(runtimeConfig.WS_PORT,
                   Or(processEnv.NEXT_PUBLIC_WS_PORT, "3002"))
  IN IF Truthy(runtimeConfig.WS_URL) THEN runtimeConfig.WS_URL
     ELSE IF Truthy(processEnv.NEXT_PUBLIC_WS_URL)
     THEN processEnv.NEXT_PUBLIC_WS_URL
     ELSE IF HasWindow
     THEN (IF location.protocol = "https:" THEN "wss" ELSE "ws") \o "://" \o
          Or(runtimeConfig.WS_HOST, location.hostname) \o ":" \o wsPort
     ELSE "ws://localhost:" \o wsPort

\* The page's own origin as a WebSocket origin: scheme, host and port.
\* location.port is empty for the scheme's default port.
SameOrigin ==
  (IF location.protocol = "https:" THEN "wss" ELSE "ws") \o "://" \o
  location.hostname \o
  (IF location.port = "" THEN "" ELSE ":" \o location.port)

\* The connection core as one record, so that connect, cleanup and
\* disconnect compose the way the code calls them.
Conn ==
  [status |-> status, wsRef |-> wsRef, rt |-> reconnectTimerRef,
   ping |-> pingIntervalRef, attempts |-> reconnectAttemptsRef,
   sock |-> sock, leakedRt |-> leakedReconnect, leakedPing |-> leakedPing]

SetConn(c) ==
  /\ status' = c.status
  /\ wsRef' = c.wsRef
  /\ reconnectTimerRef' = c.rt
  /\ pingIntervalRef' = c.ping
  /\ reconnectAttemptsRef' = c.attempts
  /\ sock' = c.sock
  /\ leakedReconnect' = c.leakedRt
  /\ leakedPing' = c.leakedPing

ReadyStateOf(c) == IF c.wsRef = 0 THEN "NONE" ELSE c.sock[c.wsRef]

\* error was dispatched on a socket and its close follows in the same task
InTask == \E s \in SockIds : sock[s] = "ERRORED"

Null ==
  [backendId |-> Undef, range |-> Undef, countryStats |-> FALSE,
   deviceStats |-> FALSE]

Tabs == {"overview", "domains", "rules"}
TimePresets == {"24h", "custom"}
isRollingTimePreset(preset) == preset # "custom"
Views == {"summary", "countries"}
CacheViews == Views \cup {"devices"}
QueryKeys == CacheViews \X BackendIds \X Ranges
Absent == [prov |-> "none", countryStats |-> FALSE]
NoKey(view) == <<view, Undef, Undef>>
NoPull ==
  [key |-> <<"summary", Undef, Undef>>, replaced |-> "none", auth |-> FALSE,
   older |-> FALSE]
StatsSummary(b, r, cs, ds) ==
  [backendId |-> b, range |-> r, countryStats |-> cs, deviceStats |-> ds]

(***************************************************************************)
(* cleanup, connect, disconnect (websocket.ts 126-226, 301-305).           *)
(***************************************************************************)
\* cleanup(): clear both timers through their refs; detach the handlers of
\* the socket in wsRef, close it and forget it.  A socket without handlers
\* can no longer act on the hook, so its slot is released.
\* Mutant: cleanup() without clearing the reconnect timer.
cleanupKeepsReconnectTimer(c) ==
  [c EXCEPT !.ping = "null",
            !.sock = IF c.wsRef = 0 THEN c.sock
                     ELSE [c.sock EXCEPT ![c.wsRef] = "NONE"],
            !.wsRef = 0]

cleanup(c) ==
  [c EXCEPT !.rt = "null",
            !.ping = "null",
            !.sock = IF c.wsRef = 0 THEN c.sock
                     ELSE [c.sock EXCEPT ![c.wsRef] = "NONE"],
            !.wsRef = 0]

\* The sockets after wsRef.current is overwritten: a CLOSED socket has
\* delivered its close event and is dropped; a CLOSING one keeps its
\* handlers and stays.
Superseded(c) ==
  IF c.wsRef # 0 /\ c.sock[c.wsRef] = "CLOSED"
  THEN [c.sock EXCEPT ![c.wsRef] = "NONE"]
  ELSE c.sock

NewId(c) == CHOOSE s \in SockIds :
              /\ Superseded(c)[s] = "NONE"
              /\ \A t \in SockIds : Superseded(c)[t] = "NONE" => s <= t

\* Mutant: connect() with setStatus('connecting') ahead of its early return.
connectSetsStatusFirst(c, throws) ==
  IF ReadyStateOf(c) \in {"OPEN", "CONNECTING"}
  THEN [c EXCEPT !.status = "connecting"]
  ELSE IF throws THEN [c EXCEPT !.status = "error"]
  ELSE [c EXCEPT !.status = "connecting",
                 !.sock = [Superseded(c) EXCEPT ![NewId(c)] = "CONNECTING"],
                 !.wsRef = NewId(c)]

\* connect(): throws says whether `new WebSocket(wsUrl)` throws.
connect(c, throws) ==
  IF ReadyStateOf(c) \in {"OPEN", "CONNECTING"} THEN c
  ELSE IF throws THEN [c EXCEPT !.status = "error"]
  ELSE [c EXCEPT !.status = "connecting",
                 !.sock = [Superseded(c) EXCEPT ![NewId(c)] = "CONNECTING"],
                 !.wsRef = NewId(c)]

\* connect() can be modelled from c: it returns early, throws, or finds a
\* socket id within the bound.
CanConnect(c, throws) ==
  \/ ReadyStateOf(c) \in {"OPEN", "CONNECTING"}
  \/ throws
  \/ \E s \in SockIds : Superseded(c)[s] = "NONE"

disconnect(c) ==
  [cleanup([c EXCEPT !.attempts = 0]) EXCEPT !.status = "disconnected"]

(***************************************************************************)
(* The subscribe effect (websocket.ts 228-299).  It runs after a render in *)
(* which status or a subscription field changed, and reads the rendered    *)
(* status and options and the live wsRef.                                  *)
(***************************************************************************)
SubscribeFrame(b, r) == [type |-> "subscribe", backendId |-> b, range |-> r]

\* Mutant: the effect without its readyState guard.
SubscribeSendsUnguarded ==
  /\ <<status', backendId', range'>> # <<status, backendId, range>>
  /\ status' = "connected"
  /\ backendId' # Undef

\* Mutant: the effect with status as its only dependency.
SubscribeSendsOnStatusOnly ==
  /\ status' # status
  /\ status' = "connected"
  /\ wsRef' # 0 /\ sock'[wsRef'] = "OPEN"
  /\ backendId' # Undef

\* Mutant: the effect without its backendId guard.
SubscribeSendsWithoutBackend ==
  /\ <<status', backendId', range'>> # <<status, backendId, range>>
  /\ status' = "connected"
  /\ wsRef' # 0 /\ sock'[wsRef'] = "OPEN"

\* The option fields the subscribe frame carries (235-267) and the effect's
\* dependency list (268-299).  In the model range stands for start and end
\* and for the detail fields, which the effect treats alike.
DetailFields ==
  {"minPushIntervalMs", "includeTrend", "trendMinutes", "trendBucketMinutes",
   "includeDeviceDetails", "deviceSourceIP", "deviceDetailLimit",
   "includeProxyDetails", "proxyChain", "proxyDetailLimit",
   "includeRuleDetails", "ruleName", "ruleDetailLimit",
   "includeRuleChainFlow", "includeDomainsPage", "domainsPageOffset",
   "domainsPageLimit", "domainsPageSortBy", "domainsPageSortOrder",
   "domainsPageSearch", "includeIPsPage", "ipsPageOffset", "ipsPageLimit",
   "ipsPageSortBy", "ipsPageSortOrder", "ipsPageSearch"}
SubscribeFrameFields == {"backendId", "start", "end"} \cup DetailFields
SubscribeDeps == {"backendId", "start", "end", "status"} \cup DetailFields

SubscribeSends ==
  /\ <<status', backendId', range'>> # <<status, backendId, range>>
  /\ status' = "connected"
  /\ wsRef' # 0 /\ sock'[wsRef'] = "OPEN"
  /\ backendId' # Undef

SubscribeEffect ==
  /\ tx' = IF SubscribeSends THEN <<SubscribeFrame(backendId', range')>>
           ELSE <<>>
  /\ subs' = IF "server" \notin observe THEN subs ELSE
             LET kept == IF wsRef' = wsRef /\ wsRef' # 0
                            /\ sock'[wsRef'] = "OPEN"
                         THEN subs ELSE {}
             IN IF SubscribeSends THEN kept \cup {<<backendId', range'>>}
                ELSE kept


(***************************************************************************)
(* History variables.                                                      *)
(***************************************************************************)
(***************************************************************************)
(* The polling effects of DashboardPage (part_000 528-550).  They depend   *)
(* on the hook's status, so every step that changes one of their           *)
(* dependencies runs the effect again: the cleanup of the previous run     *)
(* clears the interval that run created, then the body may create one.     *)
(***************************************************************************)
wsRealtimeActive == enabled /\ status = "connected"
\* The two polling effects (part_000 528-550); 0 stands for no interval.
\* The rolling interval moves the time window, which gives the enabled
\* queries a new key to fetch; the fixed one invalidates every stats query.
shouldReducePolling == wsRealtimeActive
RollingIntervalMs ==
  IF ~autoRefresh \/ ~isRollingTimePreset(timePreset) THEN 0
  ELSE IF activeTab = "rules" THEN reducedIntervalMs
  ELSE IF shouldReducePolling THEN reducedIntervalMs
  ELSE defaultIntervalMs
\* Mutant: the fixed-preset effect without its wsRealtimeActive test.
FixedIntervalMsIgnoringPush ==
  IF ~autoRefresh \/ isRollingTimePreset(timePreset) THEN 0
  ELSE defaultIntervalMs

FixedIntervalMs ==
  IF ~autoRefresh \/ isRollingTimePreset(timePreset) \/ wsRealtimeActive
  THEN 0
  ELSE defaultIntervalMs
\* At most one of the two effects has an interval running.
PollingIntervalMs ==
  IF RollingIntervalMs # 0 THEN RollingIntervalMs ELSE FixedIntervalMs

RollingDeps == <<activeTab, autoRefresh, shouldReducePolling, timePreset>>
FixedDeps == <<autoRefresh, wsRealtimeActive, timePreset>>

\* The interval the body of each effect creates, as a set of at most one.
RollingTimer ==
  IF RollingIntervalMs = 0 THEN {}
  ELSE {[effect |-> "rolling", ms |-> RollingIntervalMs]}
FixedTimer ==
  IF FixedIntervalMs = 0 THEN {}
  ELSE {[effect |-> "fixed", ms |-> FixedIntervalMs]}

\* Mutant: clearInterval that clears nothing.
clearIntervalKeeps(timers, handle) == timers

\* clearInterval(interval): the handle is the interval the effect's body
\* created, or nothing when the body returned early.
clearInterval(timers, handle) == timers \ handle

\* One effect after a step: cleanup and body if it has to run again.
EffectRun(timers, created, creates, rerun) ==
  IF rerun THEN clearInterval(timers, created) \cup creates ELSE timers

PollingEffects ==
  pollTimers' =
    IF ~mounted'
    THEN clearInterval(clearInterval(pollTimers, RollingTimer), FixedTimer)
    ELSE IF ~mounted
    THEN pollTimers \cup RollingTimer' \cup FixedTimer'
    ELSE EffectRun(
           EffectRun(pollTimers, RollingTimer, RollingTimer',
                     RollingDeps' # RollingDeps),
           FixedTimer, FixedTimer', FixedDeps' # FixedDeps)

\* placeholderData: keepPreviousData.  The observer of a view remembers the
\* last key it observed that had data.
TrackPlaceholder ==
  lastQueryWithDefinedData' =
    IF "placeholder" \notin observe THEN lastQueryWithDefinedData
    ELSE [v \in Views |->
            IF /\ backendId' # Undef
               /\ queryCache'[<<v, backendId', range'>>].prov # "none"
            THEN <<v, backendId', range'>>
            ELSE lastQueryWithDefinedData[v]]

\* The steps whose handler calls a consumer callback through its ref:
\* onConnectRef, onMessageRef, onDisconnectRef, onErrorRef.
NoCallback == -1
CallbackOps == {"onopen", "onmessage", "onclose", "onerror"}

NoteStep(op, stale) ==
  /\ last' = IF op \in observe THEN [op |-> op, stale |-> stale]
             ELSE [op |-> "other", stale |-> FALSE]
  /\ pulled' = NoPull
  /\ invoked' = IF "callbacks" \in observe /\ op \in CallbackOps
                THEN callbacksRef ELSE NoCallback
  /\ UNCHANGED observe

NotePull(p) ==
  /\ last' = [op |-> "pull", stale |-> FALSE]
  /\ pulled' = p
  /\ invoked' = NoCallback
  /\ UNCHANGED observe

NoteWanted(w) == wanted' = IF "wanted" \in observe THEN w ELSE wanted

TrackChanges ==
  changesWhileClosed' =
    IF "changes" \notin observe THEN changesWhileClosed
    ELSE IF <<backendId', range'>> # <<backendId, range>>
    THEN IF ReadyStateOf(Conn) = "OPEN" THEN 0
         ELSE Min(changesWhileClosed + 1, MaxChanges)
    ELSE IF ReadyStateOf(Conn) = "OPEN"
            /\ (wsRef' # wsRef \/ sock'[wsRef'] # "OPEN")
         THEN 0
         ELSE changesWhileClosed

\* fresh: since the subscribe frame for the current options was sent on the
\* current connection, a stats frame for these options has arrived.
TrackFresh(arrived) ==
  fresh' =
    IF "fresh" \notin observe THEN fresh
    ELSE IF status' # "connected" \/ tx' # <<>> THEN FALSE
    ELSE IF arrived /\ lastMessage'.backendId = backendId'
            /\ lastMessage'.range = range'
         THEN TRUE
         ELSE fresh

\* reconnectAttemptsRef was reset by disconnect() or by the enable effect
StreakKept == UNCHANGED <<streak, closesSinceOpen, prevStreak, lastDelay>>
StreakReset ==
  IF "backoff" \in observe
  THEN streak' = 0 /\ UNCHANGED <<closesSinceOpen, prevStreak, lastDelay>>
  ELSE StreakKept
StreakOpen ==
  IF "backoff" \in observe
  THEN /\ streak' = 0 /\ closesSinceOpen' = 0
       /\ prevStreak' = (closesSinceOpen >= 2)
       /\ UNCHANGED lastDelay
  ELSE StreakKept
StreakClose(delay) ==
  IF "backoff" \in observe
  THEN /\ streak' = streak + 1 /\ closesSinceOpen' = closesSinceOpen + 1
       /\ lastDelay' = delay
       /\ UNCHANGED prevStreak
  ELSE StreakKept
AttemptsCap == IF "backoff" \in observe THEN MaxAttempts ELSE MaxStreak

(***************************************************************************)
(* Initial state: the hook is constructed, no effect has run yet.          *)
(***************************************************************************)
InitHook ==
  /\ mounted = FALSE
  /\ enabled \in BOOLEAN
  /\ backendId \in {Undef} \cup BackendIds
  /\ range \in Ranges
  /\ status = "disconnected"
  /\ lastMessage = Null
  /\ wsRef = 0
  /\ reconnectTimerRef = "null"
  /\ pingIntervalRef = "null"
  /\ reconnectAttemptsRef = 0
  /\ sock = [s \in SockIds |-> "NONE"]
  /\ leakedReconnect = 0
  /\ leakedPing = FALSE
  /\ subs = {}
  /\ tx = <<>>
  /\ last = [op |-> "other", stale |-> FALSE]
  /\ lastDelay = 0
  /\ wanted = FALSE
  /\ streak = 0
  /\ closesSinceOpen = 0
  /\ prevStreak = FALSE
  /\ changesWhileClosed = 0
  /\ queryCache = [k \in QueryKeys |-> Absent]
  /\ inflight = {}
  /\ queryErrors = {}
  /\ pollTimers = {}
  /\ callbacksRef = 0
  /\ trackLastMessageRef = TRUE
  /\ invoked = NoCallback
  /\ lastQueryWithDefinedData = [v \in Views |-> NoKey(v)]
  /\ fresh = FALSE
  /\ pulled = NoPull
  /\ latency = "null"
  /\ lastPingTimeRef = 0
  /\ unanswered = 0
  /\ discarded = FALSE

(***************************************************************************)
(* The enable effect (websocket.ts 307-319) and a render with new options. *)
(***************************************************************************)
\* The effect body for options.enabled = e.
EnableEffectBody(c, e, throws) ==
  IF e THEN connect([c EXCEPT !.attempts = 0], throws) ELSE disconnect(c)

\* The effect's cleanup, returned only by a run with enabled = true.
EnableEffectCleanup(c, wasEnabled) ==
  IF wasEnabled THEN disconnect(c) ELSE c

\* First commit: both effects run; the subscribe effect finds status
\* 'disconnected'.
Mount(throws) ==
  /\ ~mounted
  /\ CanConnect(Conn, throws)
  /\ mounted' = TRUE
  /\ UNCHANGED <<enabled, backendId, range, lastMessage>>
  /\ SetConn(EnableEffectBody(Conn, enabled, throws))
  /\ SubscribeEffect
  /\ NoteStep("mount", FALSE)
  /\ NoteWanted(enabled)
  /\ StreakReset
  /\ TrackChanges /\ TrackFresh(FALSE)
  /\ UNCHANGED probeVars
  /\ UNCHANGED dashVars
  /\ TrackPlaceholder
  /\ PollingEffects
  /\ UNCHANGED urlVars
  /\ UNCHANGED callbackVars
  /\ UNCHANGED uiVars

\* A render with options (e, b, r).  React runs the cleanups of the effects
\* whose dependencies changed, then their bodies in declaration order: the
\* subscribe effect, then the enable effect.
RerenderNoting(op, e, b, r, throws) ==
  /\ mounted /\ ~InTask
  /\ <<e, b, r>> # <<enabled, backendId, range>>
  /\ LET c1 == IF e # enabled THEN EnableEffectCleanup(Conn, enabled)
               ELSE Conn
         c2 == IF e # enabled THEN EnableEffectBody(c1, e, throws) ELSE c1
     IN /\ CanConnect(c1, throws)
        /\ SetConn(c2)
  /\ enabled' = e /\ backendId' = b /\ range' = r
  /\ UNCHANGED <<mounted, lastMessage>>
  /\ SubscribeEffect
  /\ NoteStep(op, FALSE)
  /\ NoteWanted(IF e # enabled THEN e ELSE wanted)
  /\ IF e # enabled THEN StreakReset ELSE StreakKept
  /\ TrackChanges /\ TrackFresh(FALSE)
  /\ UNCHANGED probeVars

Rerender(e, b, r, throws) ==
  RerenderNoting(IF e # enabled THEN (IF e THEN "enable" ELSE "disable")
                 ELSE "params", e, b, r, throws)

SetEnabled(e, throws) ==
  Rerender(e, backendId, range, throws) /\ UNCHANGED dashVars
  /\ TrackPlaceholder
  /\ PollingEffects
  /\ UNCHANGED urlVars
  /\ UNCHANGED callbackVars
  /\ UNCHANGED uiVars

SetParams(b, r) ==
  /\ <<b, r>> # <<backendId, range>>
  /\ Rerender(enabled, b, r, FALSE)
  /\ UNCHANGED dashVars
  /\ TrackPlaceholder
  /\ PollingEffects
  /\ UNCHANGED urlVars
  /\ UNCHANGED callbackVars
  /\ UNCHANGED uiVars

(***************************************************************************)
(* connect() and disconnect() called by the consumer (websocket.ts         *)
(* 321-327 returns both).                                                  *)
(***************************************************************************)
ManualConnect(throws) ==
  /\ mounted /\ ~InTask
  /\ CanConnect(Conn, throws)
  /\ SetConn(connect(Conn, throws))
  /\ UNCHANGED <<optVars, lastMessage>>
  /\ SubscribeEffect
  /\ NoteStep("connect", FALSE)
  /\ NoteWanted(TRUE)
  /\ StreakKept
  /\ TrackChanges /\ TrackFresh(FALSE)
  /\ UNCHANGED probeVars
  /\ UNCHANGED dashVars
  /\ TrackPlaceholder
  /\ PollingEffects
  /\ UNCHANGED urlVars
  /\ UNCHANGED callbackVars
  /\ UNCHANGED uiVars

ManualDisconnect ==
  /\ mounted /\ ~InTask
  /\ SetConn(disconnect(Conn))
  /\ UNCHANGED <<optVars, lastMessage>>
  /\ SubscribeEffect
  /\ NoteStep("disconnect", FALSE)
  /\ NoteWanted(FALSE)
  /\ StreakReset
  /\ TrackChanges /\ TrackFresh(FALSE)
  /\ UNCHANGED probeVars
  /\ UNCHANGED dashVars
  /\ TrackPlaceholder
  /\ PollingEffects
  /\ UNCHANGED urlVars
  /\ UNCHANGED callbackVars
  /\ UNCHANGED uiVars


(***************************************************************************)
(* The reconnect timer (websocket.ts 212-214): its callback calls          *)
(* connect().  The handle stays in reconnectTimerRef after it fired.       *)
(***************************************************************************)
ReconnectTimerFires(throws) ==
  /\ ~InTask
  /\ reconnectTimerRef = "pending"
  /\ CanConnect(Conn, throws)
  /\ SetConn(connect([Conn EXCEPT !.rt = "fired"], throws))
  /\ UNCHANGED <<optVars, lastMessage, wanted>>
  /\ SubscribeEffect
  /\ NoteStep("timer", FALSE)
  /\ StreakKept
  /\ TrackChanges /\ TrackFresh(FALSE)
  /\ UNCHANGED probeVars
  /\ UNCHANGED dashVars
  /\ TrackPlaceholder
  /\ PollingEffects
  /\ UNCHANGED urlVars
  /\ UNCHANGED callbackVars
  /\ UNCHANGED uiVars

\* A timer whose handle was overwritten by a later onclose.
LeakedReconnectTimerFires(throws) ==
  /\ ~InTask
  /\ leakedReconnect > 0
  /\ CanConnect(Conn, throws)
  /\ SetConn(connect([Conn EXCEPT !.leakedRt = leakedReconnect - 1], throws))
  /\ UNCHANGED <<optVars, lastMessage, wanted>>
  /\ SubscribeEffect
  /\ NoteStep("timer", FALSE)
  /\ StreakKept
  /\ TrackChanges /\ TrackFresh(FALSE)
  /\ UNCHANGED probeVars
  /\ UNCHANGED dashVars
  /\ TrackPlaceholder
  /\ PollingEffects
  /\ UNCHANGED urlVars
  /\ UNCHANGED callbackVars
  /\ UNCHANGED uiVars

(***************************************************************************)
(* Transport events (websocket.ts 163-221).  Only sockets whose handlers   *)
(* are attached are in sock.                                               *)
(***************************************************************************)
\* Mutant: onopen without the reset of reconnectAttemptsRef.
OnOpenHandlerKeepsAttempts(c) ==
  [c EXCEPT !.status = "connected",
            !.ping = "running",
            !.leakedPing = c.leakedPing \/ c.ping = "running"]

\* ws.onopen
OnOpenHandler(c) ==
  [c EXCEPT !.status = "connected",
            !.attempts = 0,
            !.ping = "running",
            !.leakedPing = c.leakedPing \/ c.ping = "running"]

OnOpen(s) ==
  /\ ~InTask
  /\ sock[s] = "CONNECTING"
  /\ SetConn(OnOpenHandler([Conn EXCEPT !.sock[s] = "OPEN"]))
  /\ UNCHANGED <<optVars, lastMessage, wanted>>
  /\ SubscribeEffect
  /\ NoteStep("onopen", s # wsRef)
  /\ StreakOpen
  /\ TrackChanges /\ TrackFresh(FALSE)
  /\ UNCHANGED <<latency, lastPingTimeRef>>
  /\ unanswered' = 0 /\ discarded' = FALSE
  /\ UNCHANGED dashVars
  /\ TrackPlaceholder
  /\ PollingEffects
  /\ UNCHANGED urlVars
  /\ UNCHANGED callbackVars
  /\ UNCHANGED uiVars

\* The server starts the closing handshake: readyState becomes CLOSING, no
\* event is delivered yet.
ServerStartsClose(s) ==
  /\ ~InTask
  /\ sock[s] = "OPEN"
  /\ SetConn([Conn EXCEPT !.sock[s] = "CLOSING"])
  /\ UNCHANGED <<optVars, lastMessage, wanted>>
  /\ SubscribeEffect
  /\ NoteStep("closing", FALSE)
  /\ StreakKept
  /\ TrackChanges /\ TrackFresh(FALSE)
  /\ UNCHANGED probeVars
  /\ UNCHANGED dashVars
  /\ TrackPlaceholder
  /\ PollingEffects
  /\ UNCHANGED urlVars
  /\ UNCHANGED callbackVars
  /\ UNCHANGED uiVars

\* The model stops counting at its bounds: no close is delivered there.
CloseWithinBounds ==
  /\ reconnectAttemptsRef < AttemptsCap /\ closesSinceOpen < AttemptsCap
  /\ reconnectTimerRef = "pending" => leakedReconnect < MaxLeaked

\* ws.onerror; the close event of the same socket follows in the same task.
OnErrorHandler(c) == [c EXCEPT !.status = "error"]

OnError(s) ==
  /\ ~InTask
  /\ sock[s] \in {"CONNECTING", "OPEN", "CLOSING"}
  /\ CloseWithinBounds
  /\ SetConn(OnErrorHandler([Conn EXCEPT !.sock[s] = "ERRORED"]))
  /\ UNCHANGED <<optVars, lastMessage, wanted>>
  /\ SubscribeEffect
  /\ NoteStep("onerror", s # wsRef)
  /\ StreakKept
  /\ TrackChanges /\ TrackFresh(FALSE)
  /\ UNCHANGED probeVars
  /\ UNCHANGED dashVars
  /\ TrackPlaceholder
  /\ PollingEffects
  /\ UNCHANGED urlVars
  /\ UNCHANGED callbackVars
  /\ UNCHANGED uiVars

\* Mutant: the delay without its cap.
ReconnectDelayUncapped(attempts) == baseReconnectDelayMs * Pow2(attempts)

\* Math.min(3000 * Math.pow(2, attempts), maxReconnectDelayMs)
ReconnectDelay(attempts) ==
  Min(baseReconnectDelayMs * Pow2(attempts), maxReconnectDelayMs)

\* Mutant: onclose without clearing the ping interval.
OnCloseHandlerKeepsPing(c) ==
  [c EXCEPT !.status = "disconnected",
            !.attempts = c.attempts + 1,
            !.rt = "pending",
            !.leakedRt = IF c.rt = "pending" THEN c.leakedRt + 1
                         ELSE c.leakedRt]

\* ws.onclose
OnCloseHandler(c) ==
  [c EXCEPT !.status = "disconnected",
            !.ping = "null",
            !.attempts = c.attempts + 1,
            !.rt = "pending",
            !.leakedRt = IF c.rt = "pending" THEN c.leakedRt + 1
                         ELSE c.leakedRt]

\* Mutant: onclose resets lastMessage and latency.
OnCloseClearsLastMessage(s) ==
  /\ sock[s] \in {"OPEN", "CLOSING", "ERRORED"}
  /\ InTask => sock[s] = "ERRORED"
  /\ CloseWithinBounds
  /\ SetConn(OnCloseHandler(
       [Conn EXCEPT !.sock[s] = IF s = wsRef THEN "CLOSED" ELSE "NONE"]))
  /\ lastMessage' = Null /\ latency' = "null"
  /\ UNCHANGED <<optVars, wanted>>
  /\ SubscribeEffect
  /\ NoteStep("onclose", s # wsRef)
  /\ StreakClose(ReconnectDelay(reconnectAttemptsRef))
  /\ TrackChanges /\ TrackFresh(FALSE)
  /\ UNCHANGED <<lastPingTimeRef, unanswered, discarded>>
  /\ UNCHANGED dashVars
  /\ TrackPlaceholder
  /\ PollingEffects
  /\ UNCHANGED urlVars
  /\ UNCHANGED callbackVars
  /\ UNCHANGED uiVars

OnClose(s) ==
  /\ sock[s] \in {"OPEN", "CLOSING", "ERRORED"}
  /\ InTask => sock[s] = "ERRORED"
  /\ CloseWithinBounds
  /\ SetConn(OnCloseHandler(
       [Conn EXCEPT !.sock[s] = IF s = wsRef THEN "CLOSED" ELSE "NONE"]))
  /\ UNCHANGED <<optVars, lastMessage, wanted>>
  /\ SubscribeEffect
  /\ NoteStep("onclose", s # wsRef)
  /\ StreakClose(ReconnectDelay(reconnectAttemptsRef))
  /\ TrackChanges /\ TrackFresh(FALSE)
  /\ UNCHANGED probeVars
  /\ UNCHANGED dashVars
  /\ TrackPlaceholder
  /\ PollingEffects
  /\ UNCHANGED urlVars
  /\ UNCHANGED callbackVars
  /\ UNCHANGED uiVars

\* Inbound frames by what onmessage sees of them: whether JSON.parse
\* succeeds, the type tag, and whether data is present.
FrameKinds == {"stats", "statsNoData", "pong", "ping", "unknown", "malformed"}
Parses(kind) == kind # "malformed"
TypeOf(kind) ==
  IF kind \in {"stats", "statsNoData"} THEN "stats"
  ELSE IF kind \in {"pong", "ping"} THEN kind
  ELSE "unknown"
HasData(kind) == kind = "stats"

\* The branch of ws.onmessage a frame takes.
OnMessageBranch(kind) ==
  IF ~Parses(kind) THEN "catch"
  ELSE IF TypeOf(kind) = "stats" /\ HasData(kind) THEN "stats"
  ELSE IF TypeOf(kind) = "pong" THEN "pong"
  ELSE "none"

\* ws.onmessage with a stats frame that carries data: the server pushes
\* stats for a descriptor it received on this socket.  trackLastMessage is
\* left at its default, true; the consumer's onMessage runs in the same
\* step.
OnStatsHandler(s, cs, ds) ==
  /\ ~InTask
  /\ sock[s] = "OPEN"
  /\ OnMessageBranch("stats") = "stats"
  /\ \E d \in subs :
       lastMessage' = IF trackLastMessageRef
                      THEN StatsSummary(d[1], d[2], cs, ds)
                      ELSE lastMessage
  /\ SetConn(Conn)
  /\ UNCHANGED <<optVars, wanted>>
  /\ SubscribeEffect
  /\ NoteStep("onmessage", s # wsRef)
  /\ StreakKept
  /\ TrackChanges /\ TrackFresh(TRUE)
  /\ UNCHANGED probeVars

\* ws.onmessage with a pong frame
OnPong(s) ==
  /\ ~InTask
  /\ sock[s] = "OPEN"
  /\ OnMessageBranch("pong") = "pong"
  /\ latency' = IF lastPingTimeRef > 0 THEN "measured" ELSE latency
  /\ unanswered' = 0
  /\ SetConn(Conn)
  /\ UNCHANGED <<optVars, wanted, lastMessage, lastPingTimeRef, discarded>>
  /\ SubscribeEffect
  /\ NoteStep("pong", s # wsRef)
  /\ StreakKept
  /\ TrackChanges /\ TrackFresh(FALSE)
  /\ UNCHANGED dashVars
  /\ TrackPlaceholder
  /\ PollingEffects
  /\ UNCHANGED urlVars
  /\ UNCHANGED callbackVars
  /\ UNCHANGED uiVars

\* Mutant: a frame that is not understood closes the connection.
OnBadFrameClosesSocket(s, kind) ==
  /\ ~InTask
  /\ sock[s] = "OPEN"
  /\ OnMessageBranch(kind) \in {"catch", "none"}
  /\ discarded' = TRUE
  /\ SetConn([Conn EXCEPT !.sock[s] = "CLOSING"])
  /\ UNCHANGED <<optVars, wanted, lastMessage, latency, lastPingTimeRef,
                 unanswered>>
  /\ SubscribeEffect
  /\ NoteStep("badframe", s # wsRef)
  /\ StreakKept
  /\ TrackChanges /\ TrackFresh(FALSE)
  /\ UNCHANGED dashVars
  /\ TrackPlaceholder
  /\ PollingEffects
  /\ UNCHANGED urlVars
  /\ UNCHANGED callbackVars
  /\ UNCHANGED uiVars

\* ws.onmessage with a frame that takes no branch, or whose parsing throws
\* into the catch block: nothing is set and onMessage is not called.
OnBadFrame(s, kind) ==
  /\ ~InTask
  /\ sock[s] = "OPEN"
  /\ OnMessageBranch(kind) \in {"catch", "none"}
  /\ discarded' = TRUE
  /\ SetConn(Conn)
  /\ UNCHANGED <<optVars, wanted, lastMessage, latency, lastPingTimeRef,
                 unanswered>>
  /\ SubscribeEffect
  /\ NoteStep("badframe", s # wsRef)
  /\ StreakKept
  /\ TrackChanges /\ TrackFresh(FALSE)
  /\ UNCHANGED dashVars
  /\ TrackPlaceholder
  /\ PollingEffects
  /\ UNCHANGED urlVars
  /\ UNCHANGED callbackVars
  /\ UNCHANGED uiVars

\* The ping interval started by onopen (169-175) ticks.  Its socket is the
\* one in wsRef as long as connect() is only called by the enable effect
\* and the reconnect timer.  No state changes, so nothing renders.
PingFrame == [type |-> "ping"]

\* Mutant: two unanswered pings close the socket.
PingTickClosesWhenUnanswered ==
  /\ ~InTask
  /\ pingIntervalRef = "running"
  /\ wsRef # 0
  /\ unanswered < MaxUnanswered
  /\ IF sock[wsRef] = "OPEN"
     THEN /\ lastPingTimeRef' = 1
          /\ tx' = <<PingFrame>>
          /\ unanswered' = unanswered + 1
          /\ SetConn(IF unanswered >= 1
                     THEN [Conn EXCEPT !.sock[wsRef] = "CLOSING"] ELSE Conn)
     ELSE /\ UNCHANGED <<lastPingTimeRef, unanswered>>
          /\ tx' = <<>>
          /\ SetConn(Conn)
  /\ UNCHANGED <<optVars, wanted, lastMessage, latency, discarded, subs,
                 fresh, changesWhileClosed, dashVars>>
  /\ TrackPlaceholder
  /\ PollingEffects
  /\ UNCHANGED urlVars
  /\ UNCHANGED callbackVars
  /\ UNCHANGED uiVars
  /\ NoteStep("ping", FALSE)
  /\ StreakKept

\* Mutant: the interval callback without its readyState guard.
PingTickUnguarded ==
  /\ ~InTask
  /\ pingIntervalRef = "running"
  /\ wsRef # 0
  /\ unanswered < MaxUnanswered
  /\ lastPingTimeRef' = 1
  /\ tx' = <<PingFrame>>
  /\ unanswered' = unanswered + 1
  /\ SetConn(Conn)
  /\ UNCHANGED <<optVars, wanted, lastMessage, latency, discarded, subs,
                 fresh, changesWhileClosed, dashVars>>
  /\ TrackPlaceholder
  /\ PollingEffects
  /\ UNCHANGED urlVars
  /\ UNCHANGED callbackVars
  /\ UNCHANGED uiVars
  /\ NoteStep("ping", FALSE)
  /\ StreakKept

PingTick ==
  /\ ~InTask
  /\ pingIntervalRef = "running"
  /\ wsRef # 0
  /\ unanswered < MaxUnanswered
  /\ IF sock[wsRef] = "OPEN"
     THEN /\ lastPingTimeRef' = 1
          /\ tx' = <<PingFrame>>
          /\ unanswered' = unanswered + 1
     ELSE /\ UNCHANGED <<lastPingTimeRef, unanswered>>
          /\ tx' = <<>>
  /\ SetConn(Conn)
  /\ UNCHANGED <<optVars, wanted, lastMessage, latency, discarded, subs,
                 fresh, changesWhileClosed, dashVars>>
  /\ TrackPlaceholder
  /\ PollingEffects
  /\ UNCHANGED urlVars
  /\ UNCHANGED callbackVars
  /\ UNCHANGED uiVars
  /\ NoteStep("ping", FALSE)
  /\ StreakKept

(***************************************************************************)
(* DashboardPage (part_000 340-550).  The page passes wsEnabled,           *)
(* activeBackendId and stableTimeRange to the hook, so the hook's enabled, *)
(* backendId and range are these values.  The query client is the          *)
(* environment: a query fetches while it is enabled, a fetch in flight is  *)
(* not cancelled by setQueryData or by disabling the query, and the last   *)
(* write to a key wins.                                                    *)
(***************************************************************************)
\* autoRefresh && isWsSummaryTab && !!activeBackendId
isWsSummaryTab(tab) ==
  tab \in {"overview", "domains", "countries", "proxies", "devices"}
WsEnabled(tab, auto, b) == auto /\ isWsSummaryTab(tab) /\ b # Undef

needsCountries == activeTab \in {"overview", "countries"}
hasWsCountries ==
  /\ wsRealtimeActive /\ lastMessage.countryStats
  /\ activeTab \in {"overview", "countries"}

SummaryQueryEnabled == backendId # Undef /\ ~wsRealtimeActive
CountriesQueryEnabled ==
  backendId # Undef /\ needsCountries /\ ~hasWsCountries

QueryEnabled(view) ==
  IF view = "summary" THEN SummaryQueryEnabled ELSE CountriesQueryEnabled

\* A step of the page that leaves the hook alone.
HookIdleVars ==
  /\ UNCHANGED <<optVars, connVars, lastMessage, subs, wanted,
                 changesWhileClosed, fresh>>
  /\ tx' = <<>>
  /\ StreakKept
  /\ UNCHANGED probeVars

HookIdle(op) == HookIdleVars /\ NoteStep(op, FALSE)

\* A render of the page with new state (tab, auto) or a new active backend.
DashRender(tab, auto, b, throws) ==
  /\ mounted /\ ~InTask
  /\ <<tab, auto, b>> # <<activeTab, autoRefresh, backendId>>
  /\ activeTab' = tab /\ autoRefresh' = auto
  /\ IF <<WsEnabled(tab, auto, b), b>> # <<enabled, backendId>>
     THEN Rerender(WsEnabled(tab, auto, b), b, range, throws)
     ELSE HookIdle("render")
  /\ UNCHANGED <<timePreset, queryCache, inflight, queryErrors>>
  /\ TrackPlaceholder
  /\ PollingEffects
  /\ UNCHANGED urlVars
  /\ UNCHANGED callbackVars
  /\ UNCHANGED uiVars

SetActiveTab(tab, throws) ==
  DashRender(tab, autoRefresh, backendId, throws)
SetAutoRefresh(auto, throws) ==
  DashRender(activeTab, auto, backendId, throws)
\* backendsQuery delivers a list with another active backend, or none
BackendsLoaded(b, throws) ==
  DashRender(activeTab, autoRefresh, b, throws)

\* The time range picker: setTimePreset(preset); setTimeRange(range).
handleTimeRangeChange(r, preset) ==
  /\ mounted /\ ~InTask
  /\ <<r, preset>> # <<range, timePreset>>
  /\ timePreset' = preset
  /\ IF r # range THEN Rerender(enabled, backendId, r, FALSE)
     ELSE HookIdle("render")
  /\ UNCHANGED <<activeTab, autoRefresh, queryCache, inflight, queryErrors>>
  /\ TrackPlaceholder
  /\ PollingEffects
  /\ UNCHANGED urlVars
  /\ UNCHANGED callbackVars
  /\ UNCHANGED uiVars

\* {...previous, ...stats}
MergeSummary(previous, stats) ==
  [prov |-> "push",
   countryStats |-> stats.countryStats \/ previous.countryStats]

\* setQueryData as onMessage calls it for a view's key: the summary is
\* merged into the entry, the other two replace it.
PushWrite(previous, view, stats) ==
  IF view = "summary" THEN MergeSummary(previous, stats)
  ELSE [prov |-> "push", countryStats |-> view = "countries"]

\* The query client stores a fetched response in place of the entry.
PullWrite(previous, cs) == [prov |-> "pull", countryStats |-> cs]

\* The writes a key can receive, and the entry after one of them.
CacheWrites == [kind : {"push", "pull"}, countryStats : BOOLEAN]
CacheWrite(previous, view, w) ==
  IF w.kind = "push"
  THEN PushWrite(previous, view,
                 StatsSummary(backendId, range, w.countryStats, FALSE))
  ELSE PullWrite(previous, w.countryStats)

\* Mutant: every frame is written to all three keys.
PushedKeysAll(stats) ==
  IF backendId = Undef THEN {}
  ELSE {<<"summary", backendId, range>>, <<"countries", backendId, range>>,
        <<"devices", backendId, range>>}

\* The keys onMessage writes for a frame.
PushedKeys(stats) ==
  IF backendId = Undef THEN {}
  ELSE {<<"summary", backendId, range>>} \cup
       (IF stats.countryStats THEN {<<"countries", backendId, range>>}
        ELSE {}) \cup
       (IF stats.deviceStats THEN {<<"devices", backendId, range>>}
        ELSE {})

\* The page's onMessage: the frame goes to the keys of the backend and the
\* range that are current, whatever descriptor the frame answers.
OnMessage(stats) ==
  /\ queryCache' =
       [k \in QueryKeys |->
          IF k \notin PushedKeys(stats) THEN queryCache[k]
          ELSE PushWrite(queryCache[k], k[1], stats)]
  /\ inflight' =
       {IF q.key \in PushedKeys(stats) THEN [q EXCEPT !.older = TRUE] ELSE q :
          q \in inflight}
  /\ queryErrors' = queryErrors \ PushedKeys(stats)

DashOnStats(s, cs, ds) ==
  /\ OnStatsHandler(s, cs, ds)
  /\ OnMessage(lastMessage')
  /\ UNCHANGED <<activeTab, autoRefresh, timePreset>>
  /\ TrackPlaceholder
  /\ PollingEffects
  /\ UNCHANGED urlVars
  /\ UNCHANGED callbackVars
  /\ UNCHANGED uiVars

\* What useQuery returns for a view: the key whose data it is.  The data of
\* the current key if it has any; else, while the query has not failed, the
\* placeholder; else nothing.
CurrentKey(view) == <<view, backendId, range>>
HasCachedData(key) == key[2] # Undef /\ queryCache[key].prov # "none"
QueryData(view) ==
  IF HasCachedData(CurrentKey(view)) THEN CurrentKey(view)
  ELSE IF CurrentKey(view) \notin queryErrors
  THEN lastQueryWithDefinedData[view]
  ELSE NoKey(view)
QueryError(view) == CurrentKey(view) \in queryErrors

\* data and countryData (part_000 430-433): the source of what is shown.
data ==
  IF wsRealtimeActive /\ lastMessage # Null THEN "wsSummary"
  ELSE IF QueryData("summary") # NoKey("summary") THEN "summaryQuery"
  ELSE "null"
countryData ==
  IF hasWsCountries THEN "wsSummary"
  ELSE IF QueryData("countries") # NoKey("countries") THEN "countriesQuery"
  ELSE "empty"

effectiveSummaryError ==
  IF wsRealtimeActive THEN FALSE ELSE QueryError("summary")
effectiveCountriesError ==
  IF hasWsCountries THEN FALSE ELSE QueryError("countries")
queryError == effectiveSummaryError \/ effectiveCountriesError

\* A query that is enabled fetches: on mount, when it becomes enabled, when
\* its key changes, and when it is invalidated.
PullStart(view) ==
  /\ mounted /\ ~InTask
  /\ QueryEnabled(view)
  /\ \A q \in inflight : q.key # <<view, backendId, range>>
  /\ Cardinality(inflight) < MaxInflight
  /\ inflight' =
       inflight \cup {[key |-> <<view, backendId, range>>, older |-> FALSE]}
  /\ queryErrors' =
       IF queryCache[<<view, backendId, range>>].prov = "none"
       THEN queryErrors \ {<<view, backendId, range>>}
       ELSE queryErrors
  /\ HookIdle("fetch")
  /\ UNCHANGED <<activeTab, autoRefresh, timePreset, queryCache>>
  /\ TrackPlaceholder
  /\ PollingEffects
  /\ UNCHANGED urlVars
  /\ UNCHANGED callbackVars
  /\ UNCHANGED uiVars

\* Mutant: a response older than the entry's last write is dropped.
PullSuccessUnlessOlder(q, cs) ==
  /\ ~InTask
  /\ q \in inflight
  /\ q.key[1] = "countries" => cs
  /\ queryCache' =
       IF q.older THEN queryCache
       ELSE [queryCache EXCEPT ![q.key] = PullWrite(queryCache[q.key], cs)]
  /\ inflight' = inflight \ {q}
  /\ queryErrors' = queryErrors \ {q.key}
  /\ NotePull(
       [key |-> q.key, replaced |-> queryCache[q.key].prov,
        auth |-> /\ q.key = <<q.key[1], backendId, range>>
                 /\ wsRealtimeActive /\ fresh
                 /\ q.key[1] = "countries" => hasWsCountries,
        older |-> q.older])
  /\ HookIdleVars
  /\ UNCHANGED <<activeTab, autoRefresh, timePreset>>
  /\ TrackPlaceholder
  /\ PollingEffects
  /\ UNCHANGED urlVars
  /\ UNCHANGED callbackVars
  /\ UNCHANGED uiVars

\* The response of a fetch arrives and is written to its key.  pulled notes
\* what it replaced, whether the request is older than the entry's last
\* write, and whether push was then serving the key: the key is the view's
\* current one, the connection is connected, the view is served by push
\* and a frame for the current subscription has arrived.
PullSuccess(q, cs) ==
  /\ ~InTask
  /\ q \in inflight
  /\ q.key[1] = "countries" => cs
  /\ queryCache' =
       [queryCache EXCEPT ![q.key] = PullWrite(queryCache[q.key], cs)]
  /\ inflight' = inflight \ {q}
  /\ queryErrors' = queryErrors \ {q.key}
  /\ NotePull(
       [key |-> q.key, replaced |-> queryCache[q.key].prov,
        auth |-> /\ q.key = <<q.key[1], backendId, range>>
                 /\ wsRealtimeActive /\ fresh
                 /\ q.key[1] = "countries" => hasWsCountries,
        older |-> q.older])
  /\ HookIdleVars
  /\ UNCHANGED <<activeTab, autoRefresh, timePreset>>
  /\ TrackPlaceholder
  /\ PollingEffects
  /\ UNCHANGED urlVars
  /\ UNCHANGED callbackVars
  /\ UNCHANGED uiVars

\* The request fails: the query keeps its data and holds the error.
PullFailure(q) ==
  /\ ~InTask
  /\ q \in inflight
  /\ inflight' = inflight \ {q}
  /\ queryErrors' = queryErrors \cup {q.key}
  /\ HookIdle("failure")
  /\ UNCHANGED <<activeTab, autoRefresh, timePreset, queryCache>>
  /\ TrackPlaceholder
  /\ PollingEffects
  /\ UNCHANGED urlVars
  /\ UNCHANGED callbackVars
  /\ UNCHANGED uiVars

\* invalidateQueries(["stats"]): every enabled query of the keys on display
\* fetches again, unless a request for its key is in flight.
Refetched(r) ==
  {[key |-> <<view, backendId, r>>, older |-> FALSE] :
     view \in {w \in Views :
                /\ QueryEnabled(w)
                /\ \A q \in inflight : q.key # <<w, backendId, r>>}}

\* Mutant: a tick of the fixed-preset interval moves the time window too.
PollTickMovesFixed(timer, r) ==
  /\ mounted /\ ~InTask
  /\ timer \in pollTimers
  /\ IF r # range THEN RerenderNoting("tick", enabled, backendId, r, FALSE)
     ELSE HookIdle("tick")
  /\ UNCHANGED <<activeTab, autoRefresh, timePreset, queryCache, inflight,
                 queryErrors>>
  /\ TrackPlaceholder
  /\ PollingEffects
  /\ UNCHANGED urlVars
  /\ UNCHANGED callbackVars
  /\ UNCHANGED uiVars

\* A tick of a polling interval.  The rolling one calls
\* setTimeRange(getPresetTimeRange(timePreset)): r is the preset's window at
\* the time of the tick, and the queries of the new keys start by PullStart.
\* The fixed one invalidates the stats queries and leaves the range alone.
PollTick(timer, r) ==
  /\ mounted /\ ~InTask
  /\ timer \in pollTimers
  /\ IF timer.effect = "rolling"
     THEN /\ IF r # range
             THEN RerenderNoting("tick", enabled, backendId, r, FALSE)
             ELSE HookIdle("tick")
          /\ UNCHANGED <<inflight, queryErrors>>
     ELSE /\ r = range
          /\ Cardinality(inflight \cup Refetched(range)) <= MaxInflight
          /\ inflight' = inflight \cup Refetched(range)
          /\ queryErrors' =
               queryErrors \ {q.key : q \in {x \in Refetched(range) :
                                               ~HasCachedData(x.key)}}
          /\ HookIdle("tick")
  /\ UNCHANGED <<activeTab, autoRefresh, timePreset, queryCache>>
  /\ TrackPlaceholder
  /\ PollingEffects
  /\ UNCHANGED urlVars
  /\ UNCHANGED callbackVars
  /\ UNCHANGED uiVars

\* refreshNow (467-487): with a rolling preset the window is recomputed,
\* then the stats queries are invalidated.
refreshNow(r) ==
  /\ mounted /\ ~InTask
  /\ ~isRollingTimePreset(timePreset) => r = range
  /\ Cardinality(inflight \cup Refetched(r)) <= MaxInflight
  /\ inflight' = inflight \cup Refetched(r)
  /\ queryErrors' =
       queryErrors \ {q.key : q \in {x \in Refetched(r) :
                                       ~HasCachedData(x.key)}}
  /\ IF r # range THEN RerenderNoting("refresh", enabled, backendId, r, FALSE)
     ELSE HookIdle("refresh")
  /\ UNCHANGED <<activeTab, autoRefresh, timePreset, queryCache>>
  /\ TrackPlaceholder
  /\ PollingEffects
  /\ UNCHANGED urlVars
  /\ UNCHANGED callbackVars
  /\ UNCHANGED uiVars

\* The page unmounts: the cleanups of all effects run.  The state left
\* behind is what the next mount of the page starts from: the state and the
\* refs of a new instance, the backend list and the cache of the query
\* client.
Unmount ==
  /\ mounted /\ ~InTask
  /\ mounted' = FALSE
  /\ SetConn(EnableEffectCleanup(Conn, enabled))
  /\ enabled' = WsEnabled("overview", TRUE, backendId)
  /\ activeTab' = "overview" /\ autoRefresh' = TRUE /\ timePreset' = "24h"
  /\ lastMessage' = Null
  /\ latency' = "null" /\ lastPingTimeRef' = 0
  /\ unanswered' = 0 /\ discarded' = FALSE
  /\ tx' = <<>> /\ subs' = {}
  /\ fresh' = FALSE
  /\ UNCHANGED <<backendId, range, changesWhileClosed, queryCache, inflight,
                 queryErrors>>
  /\ NoteStep("unmount", FALSE)
  /\ NoteWanted(FALSE)
  /\ StreakReset
  /\ TrackPlaceholder
  /\ PollingEffects
  /\ UNCHANGED urlVars
  /\ UNCHANGED callbackVars
  /\ UNCHANGED uiVars

\* A stats frame for a consumer of the hook other than the page.
OnStats(s, cs, ds) ==
  /\ OnStatsHandler(s, cs, ds)
  /\ UNCHANGED dashVars
  /\ TrackPlaceholder
  /\ PollingEffects
  /\ UNCHANGED urlVars
  /\ UNCHANGED callbackVars
  /\ UNCHANGED uiVars

\* Mutant: new callbacks make the enable effect run again.
SetCallbacksReconnects(replace, track) ==
  /\ mounted /\ ~InTask
  /\ replace \/ track # trackLastMessageRef
  /\ replace => callbacksRef < MaxCallbacks
  /\ CanConnect(EnableEffectCleanup(Conn, enabled), FALSE)
  /\ callbacksRef' = IF replace THEN callbacksRef + 1 ELSE callbacksRef
  /\ trackLastMessageRef' = track
  /\ SetConn(EnableEffectBody(EnableEffectCleanup(Conn, enabled), enabled,
                              FALSE))
  /\ UNCHANGED <<optVars, lastMessage, wanted>>
  /\ SubscribeEffect
  /\ NoteStep("callbacks", FALSE)
  /\ StreakKept
  /\ TrackChanges /\ TrackFresh(FALSE)
  /\ UNCHANGED probeVars
  /\ UNCHANGED dashVars
  /\ TrackPlaceholder
  /\ PollingEffects
  /\ UNCHANGED urlVars
  /\ UNCHANGED uiVars

\* A render with other callbacks or another trackLastMessage: the refs are
\* assigned during the render (120-124); no effect depends on them.
SetCallbacks(replace, track) ==
  /\ mounted /\ ~InTask
  /\ replace \/ track # trackLastMessageRef
  /\ replace => callbacksRef < MaxCallbacks
  /\ callbacksRef' = IF replace THEN callbacksRef + 1 ELSE callbacksRef
  /\ trackLastMessageRef' = track
  /\ HookIdle("callbacks")
  /\ UNCHANGED dashVars
  /\ TrackPlaceholder
  /\ PollingEffects
  /\ UNCHANGED urlVars
  /\ UNCHANGED uiVars

(***************************************************************************)
(* InteractiveProxyStats (part_001 140-300): the proxy detail panel.  The  *)
(* backend is the environment: it answers each loadProxyDetails call, in   *)
(* any order, with the lists of the proxy the call named, or fails.        *)
(***************************************************************************)
Chains == {"A", "B", "C"}
NoProxy == "null"
\* api.getProxyDomains(chain, ...) and api.getProxyIPs(chain, ...)
getProxyDomains(chain) == [list |-> "domains", of |-> chain]
getProxyIPs(chain) == [list |-> "ips", of |-> chain]
\* the empty array
NoRows(list) == [list |-> list, of |-> "nothing"]

Pending == {c \in Chains : detailRequests[c] > 0}
RECURSIVE Sum(_, _)
Sum(f, S) ==
  IF S = {} THEN 0
  ELSE LET c == CHOOSE x \in S : TRUE IN f[c] + Sum(f, S \ {c})

\* Everything outside the panel.
PanelOnly ==
  UNCHANGED <<optVars, connVars, lastMessage, subs, histVars, dashVars,
              probeVars, pollTimers, urlVars, callbackVars, invoked, swVars>>

\* loadProxyDetails up to its await: setLoading(true) and both requests
\* are on their way.
loadProxyDetails(chain) ==
  /\ Sum(detailRequests, Chains) < MaxPending
  /\ loading' = TRUE
  /\ detailRequests' = [detailRequests EXCEPT ![chain] = @ + 1]

\* The data prop brings the proxies; the default-select effect picks the
\* first one while none is selected.
DataArrives(proxies) ==
  /\ chartData = <<>> /\ proxies # <<>>
  /\ chartData' = proxies
  /\ IF selectedProxy = NoProxy
     THEN /\ selectedProxy' = proxies[1]
          /\ loadProxyDetails(proxies[1])
     ELSE UNCHANGED <<selectedProxy, loading, detailRequests>>
  /\ UNCHANGED <<proxyDomains, proxyIPs, pagerVars>>
  /\ PanelOnly

handleProxyClick(chain) ==
  /\ \E i \in 1..Len(chartData) : chartData[i] = chain
  /\ selectedProxy # chain
  /\ selectedProxy' = chain
  /\ loadProxyDetails(chain)
  /\ UNCHANGED <<chartData, proxyDomains, proxyIPs, pagerVars>>
  /\ PanelOnly

\* loadProxyDetails after its await resolved (268-275, 280-282).  The page
\* count of the new list is not modelled.
DetailsLoaded(chain) ==
  /\ detailRequests[chain] > 0
  /\ detailRequests' = [detailRequests EXCEPT ![chain] = @ - 1]
  /\ proxyDomains' = getProxyDomains(chain)
  /\ proxyIPs' = getProxyIPs(chain)
  /\ domainPage' = 1
  /\ loading' = FALSE
  /\ UNCHANGED <<chartData, selectedProxy, domainTotalPages, pageNumbers>>
  /\ PanelOnly

\* loadProxyDetails after its await rejected (276-282)
DetailsFailed(chain) ==
  /\ detailRequests[chain] > 0
  /\ detailRequests' = [detailRequests EXCEPT ![chain] = @ - 1]
  /\ proxyDomains' = NoRows("domains")
  /\ proxyIPs' = NoRows("ips")
  /\ loading' = FALSE
  /\ UNCHANGED <<chartData, selectedProxy, pagerVars>>
  /\ PanelOnly

(***************************************************************************)
(* The pagination row of the domain list (part_001 376-400, 1001-1031).    *)
(* The string '...' in the list is Ellipsis; page numbers start at 1.      *)
(***************************************************************************)
Ellipsis == 0
maxVisible == 5
\* for (let i = a; i <= b; i++) pages.push(i)
PushRange(a, b) == [i \in 1..(b - a + 1) |-> a + i - 1]

\* Mutant: without the branch for a current page in the middle.
getPageNumbersWithoutMiddle(currentPage, totalPages) ==
  IF totalPages <= maxVisible THEN PushRange(1, totalPages)
  ELSE IF currentPage < totalPages - 2
  THEN PushRange(1, 4) \o <<Ellipsis, totalPages>>
  ELSE <<1, Ellipsis>> \o PushRange(totalPages - 3, totalPages)

getPageNumbers(currentPage, totalPages) ==
  IF totalPages <= maxVisible THEN PushRange(1, totalPages)
  ELSE IF currentPage <= 3
  THEN PushRange(1, 4) \o <<Ellipsis, totalPages>>
  ELSE IF currentPage >= totalPages - 2
  THEN <<1, Ellipsis>> \o PushRange(totalPages - 3, totalPages)
  ELSE <<1, Ellipsis>> \o PushRange(currentPage - 1, currentPage + 1)
       \o <<Ellipsis, totalPages>>

PagerOnly ==
  UNCHANGED <<optVars, connVars, lastMessage, subs, histVars, dashVars,
              probeVars, pollTimers, urlVars, callbackVars, invoked,
              panelVars, swVars>>

\* The row is rendered for the first time.
RenderPagination ==
  /\ pageNumbers = <<>>
  /\ pageNumbers' = getPageNumbers(domainPage, domainTotalPages)
  /\ UNCHANGED <<domainPage, domainTotalPages>>
  /\ PagerOnly

\* setDomainPage and the render that follows it
setDomainPage(page) ==
  /\ pageNumbers # <<>>
  /\ domainPage' = page
  /\ pageNumbers' = getPageNumbers(page, domainTotalPages)
  /\ UNCHANGED domainTotalPages
  /\ PagerOnly

\* The buttons of the row: previous, a page number, next.
PreviousPage ==
  /\ domainPage # 1
  /\ setDomainPage(IF domainPage - 1 > 1 THEN domainPage - 1 ELSE 1)
PageButton(idx) ==
  /\ idx \in 1..Len(pageNumbers)
  /\ pageNumbers[idx] # Ellipsis
  /\ pageNumbers[idx] # domainPage
  /\ setDomainPage(pageNumbers[idx])
NextPage ==
  /\ domainPage # domainTotalPages
  /\ setDomainPage(Min(domainTotalPages, domainPage + 1))

(***************************************************************************)
(* The service worker (layout.tsx 86-158).  A pathname is the sequence of  *)
(* its characters, so that startsWith is computed as the code computes it. *)
(* The network and the cache storage are the environment: a fetch resolves *)
(* with some status or rejects, and cache.put may fail.                    *)
(***************************************************************************)
RootPath ==
  <<"/">>
ManifestPath ==
  <<"/", "m", "a", "n", "i", "f", "e", "s", "t", ".", "w", "e", "b", "m",
    "a", "n", "i", "f", "e", "s", "t">>
ApiPath ==
  <<"/", "a", "p", "i", "/", "s", "t", "a", "t", "s">>
ApiRootPath ==
  <<"/", "a", "p", "i">>
HmrPath ==
  <<"/", "_", "n", "e", "x", "t", "/", "w", "e", "b", "p", "a", "c", "k",
    "-", "h", "m", "r">>
StaticPath ==
  <<"/", "_", "n", "e", "x", "t", "/", "s", "t", "a", "t", "i", "c", "/",
    "a", "p", "p", ".", "j", "s">>
ApiPrefix ==
  <<"/", "a", "p", "i", "/">>
HmrPrefix ==
  <<"/", "_", "n", "e", "x", "t", "/", "w", "e", "b", "p", "a", "c", "k",
    "-", "h", "m", "r">>

startsWith(s, prefix) ==
  Len(s) >= Len(prefix) /\ SubSeq(s, 1, Len(prefix)) = prefix

\* self.location and the URLs of the requests the worker sees
SelfLocation == [protocol |-> "https:", host |-> "dash.example"]
Origin(url) == <<url.protocol, url.host>>
Urls ==
  [protocol : {"https:"}, host : {"dash.example", "cdn.example"},
   pathname : {RootPath, ManifestPath, ApiPath, ApiRootPath, HmrPath,
               StaticPath}]
  \cup [protocol : {"chrome-extension:"}, host : {"dash.example"},
        pathname : {StaticPath}]
Requests == [method : {"GET", "POST"}, url : Urls]
SelfUrl(path) ==
  [protocol |-> SelfLocation.protocol, host |-> SelfLocation.host,
   pathname |-> path]
\* what fetch(event.request) does: it resolves with a status, or rejects
NetworkOutcomes == [ok : BOOLEAN, status : {200, 404}]

\* PRECACHE_ASSETS, in the cache once the install event has completed
PRECACHE_ASSETS == {SelfUrl(RootPath), SelfUrl(ManifestPath)}

NoFetchEvent ==
  [request |-> [method |-> "none", url |-> SelfUrl(RootPath)],
   net |-> [ok |-> FALSE, status |-> 404],
   respondWith |-> FALSE, answer |-> "none", put |-> FALSE]

\* Mutant: the fetch handler without its /api/ return.
HandlesApiToo(request) ==
  /\ request.method = "GET"
  /\ Origin(request.url) = Origin(SelfLocation)
  /\ request.url.protocol \in {"http:", "https:"}
  /\ ~startsWith(request.url.pathname, HmrPrefix)

\* The early returns of the fetch handler (123-134): TRUE if it goes on to
\* event.respondWith.
Handles(request) ==
  /\ request.method = "GET"
  /\ Origin(request.url) = Origin(SelfLocation)
  /\ request.url.protocol \in {"http:", "https:"}
  /\ ~startsWith(request.url.pathname, ApiPrefix)
  /\ ~startsWith(request.url.pathname, HmrPrefix)

\* One fetch event, to the end of its respondWith promise and of the
\* cache write it started.  Without respondWith the browser performs the
\* request itself.
FetchEvent(request, net, putFails) ==
  /\ LET put == Handles(request) /\ net.ok /\ net.status = 200 /\ ~putFails
         answer ==
           IF ~Handles(request) THEN "browser"
           ELSE IF net.ok THEN "network"
           ELSE IF request.url \in swCache THEN "cache"
           ELSE "error"
     IN /\ swCache' = IF put THEN swCache \cup {request.url} ELSE swCache
        /\ swEvent' = [request |-> request, net |-> net,
                       respondWith |-> Handles(request), answer |-> answer,
                       put |-> put]
  /\ UNCHANGED <<optVars, connVars, lastMessage, subs, histVars, dashVars,
                 probeVars, pollTimers, urlVars, callbackVars, invoked,
                 panelVars, pagerVars>>

(***************************************************************************)
(* Specifications.  Each records the histories its properties read.        *)
(***************************************************************************)
Lifecycle ==
  \/ \E throws \in BOOLEAN : Mount(throws)
  \/ \E e \in BOOLEAN, throws \in BOOLEAN : SetEnabled(e, throws)
  \/ \E throws \in BOOLEAN : ManualConnect(throws)
  \/ ManualDisconnect
  \/ \E throws \in BOOLEAN : ReconnectTimerFires(throws)
  \/ \E throws \in BOOLEAN : LeakedReconnectTimerFires(throws)
  \/ \E s \in SockIds : OnOpen(s)
  \/ \E s \in SockIds : ServerStartsClose(s)
  \/ \E s \in SockIds : OnError(s)
  \/ \E s \in SockIds : OnClose(s)

\* The worker is installed and has seen no fetch event.
NoServiceWorker == swCache = PRECACHE_ASSETS /\ swEvent = NoFetchEvent

\* The proxy panel, its pagination row and the service worker before
\* anything happened to them.
NoPanel ==
  /\ chartData = <<>>
  /\ selectedProxy = NoProxy
  /\ proxyDomains = NoRows("domains")
  /\ proxyIPs = NoRows("ips")
  /\ loading = FALSE
  /\ detailRequests = [c \in Chains |-> 0]
NoPager == domainPage = 1 /\ domainTotalPages = 1 /\ pageNumbers = <<>>

\* DashboardPage's own state at its defaults, and the default deployment.
NoPage ==
  /\ activeTab = "overview" /\ autoRefresh = TRUE /\ timePreset = "24h"
  /\ runtimeConfig =
       [WS_URL |-> "undefined", WS_PORT |-> "undefined",
        WS_HOST |-> "undefined"]
  /\ processEnv =
       [NEXT_PUBLIC_WS_URL |-> "undefined",
        NEXT_PUBLIC_WS_PORT |-> "undefined"]
  /\ location =
       [protocol |-> "http:", hostname |-> "localhost", port |-> "3000"]
  /\ wsUrl = "unresolved"

\* The hook on its own: no DashboardPage around it.
NoDashboard == NoPage /\ NoPanel /\ NoPager /\ NoServiceWorker

\* The connection's life cycle under every use of the hook's interface.
Init ==
  /\ InitHook /\ NoDashboard /\ backendId = 1 /\ range = 1
  /\ observe = {"wanted", "onopen", "onmessage", "onerror", "onclose",
                "disable", "disconnect", "connect"}
Next == Lifecycle
Spec == Init /\ [][Next]_vars

\* The same, observing the reconnect backoff.
InitBackoff ==
  InitHook /\ NoDashboard /\ backendId = 1 /\ range = 1 /\ observe = {"backoff"}
SpecBackoff == InitBackoff /\ [][Lifecycle]_vars

\* The life cycle with changing subscription parameters and pushed frames.
InitSub == InitHook /\ NoDashboard /\ observe = {"changes", "onopen"}
NextSub ==
  \/ Lifecycle
  \/ \E b \in {Undef} \cup BackendIds, r \in Ranges : SetParams(b, r)
SpecSub == InitSub /\ [][NextSub]_vars

\* The page around the hook: backends still loading, overview tab,
\* auto-refresh on, the time range fixed, one backend that comes and goes.
InitDash ==
  /\ InitHook /\ NoDashboard
  /\ enabled = FALSE /\ backendId = Undef /\ range = 1
  /\ observe = {"server", "fresh"}
NextDash ==
  \/ \E throws \in BOOLEAN : Mount(throws)
  \/ \E tab \in Tabs, throws \in BOOLEAN : SetActiveTab(tab, throws)
  \/ \E auto \in BOOLEAN, throws \in BOOLEAN : SetAutoRefresh(auto, throws)
  \/ \E b \in {Undef, 1}, throws \in BOOLEAN : BackendsLoaded(b, throws)
  \/ \E preset \in TimePresets : handleTimeRangeChange(range, preset)
  \/ \E throws \in BOOLEAN : ReconnectTimerFires(throws)
  \/ \E s \in SockIds : OnOpen(s)
  \/ \E s \in SockIds : ServerStartsClose(s)
  \/ \E s \in SockIds : OnError(s)
  \/ \E s \in SockIds : OnClose(s)
  \/ \E s \in SockIds, cs \in BOOLEAN : DashOnStats(s, cs, FALSE)
  \/ \E view \in Views : PullStart(view)
  \/ \E q \in inflight, cs \in BOOLEAN : PullSuccess(q, cs)
  \/ \E q \in inflight : PullFailure(q)
SpecDash == InitDash /\ [][NextDash]_vars

\* The page on the overview tab with two backends: every kind of inbound
\* frame, and the ping interval.  new WebSocket does not throw here.
InitFrames ==
  /\ InitHook /\ NoDashboard
  /\ enabled = FALSE /\ backendId = Undef /\ range = 1
  /\ observe = {"server", "onmessage", "badframe", "pong"}
NextFrames ==
  \/ \E throws \in {FALSE} : Mount(throws)
  \/ \E b \in {Undef} \cup BackendIds, throws \in {FALSE} :
       BackendsLoaded(b, throws)
  \/ \E throws \in {FALSE} : ReconnectTimerFires(throws)
  \/ \E s \in SockIds : OnOpen(s)
  \/ \E s \in SockIds : ServerStartsClose(s)
  \/ \E s \in SockIds : OnError(s)
  \/ \E s \in SockIds : OnClose(s)
  \/ \E s \in SockIds, cs \in BOOLEAN, ds \in BOOLEAN : DashOnStats(s, cs, ds)
  \/ \E s \in SockIds : OnPong(s)
  \/ \E s \in SockIds, kind \in FrameKinds : OnBadFrame(s, kind)
  \/ PingTick
SpecFrames == InitFrames /\ [][NextFrames]_vars

\* The page on the overview tab with one backend and a time range the user
\* changes: summary requests that succeed or fail, next to the connection
\* and its frames.
InitPull ==
  /\ InitHook /\ NoDashboard
  /\ enabled = FALSE /\ backendId = Undef /\ range = 1
  /\ observe = {"server", "failure", "placeholder"}
NextPull ==
  \/ \E throws \in {FALSE} : Mount(throws)
  \/ \E b \in {1}, throws \in {FALSE} : BackendsLoaded(b, throws)
  \/ \E r \in Ranges : handleTimeRangeChange(r, timePreset)
  \/ \E throws \in {FALSE} : ReconnectTimerFires(throws)
  \/ \E s \in SockIds : OnOpen(s)
  \/ \E s \in SockIds : OnClose(s)
  \/ \E s \in SockIds : DashOnStats(s, FALSE, FALSE)
  \/ PullStart("summary")
  \/ \E q \in inflight : PullSuccess(q, FALSE)
  \/ \E q \in inflight : PullFailure(q)
SpecPull == InitPull /\ [][NextPull]_vars

\* The page with its polling intervals: tabs, auto-refresh, the time
\* preset, manual refresh and unmount, next to the connection; the summary
\* is pulled.
InitPoll ==
  /\ InitHook /\ NoDashboard
  /\ enabled = FALSE /\ backendId = Undef /\ range = 1
  /\ observe = {"tick", "refresh", "unmount", "disable"}
NextPoll ==
  \/ \E throws \in {FALSE} : Mount(throws)
  \/ Unmount
  \/ \E tab \in Tabs, throws \in {FALSE} : SetActiveTab(tab, throws)
  \/ \E auto \in BOOLEAN, throws \in {FALSE} : SetAutoRefresh(auto, throws)
  \/ \E b \in {Undef, 1}, throws \in {FALSE} : BackendsLoaded(b, throws)
  \/ \E r \in Ranges, preset \in TimePresets :
       handleTimeRangeChange(r, preset)
  \/ \E timer \in pollTimers, r \in Ranges : PollTick(timer, r)
  \/ \E r \in Ranges : refreshNow(r)
  \/ \E throws \in {FALSE} : ReconnectTimerFires(throws)
  \/ \E s \in SockIds : OnOpen(s)
  \/ \E s \in SockIds : OnClose(s)
  \/ PullStart("summary")
  \/ \E q \in inflight : PullSuccess(q, FALSE)
SpecPoll == InitPoll /\ [][NextPoll]_vars

\* The hook under a consumer that replaces its callbacks between events.
InitCallbacks ==
  /\ InitHook /\ NoDashboard
  /\ enabled = TRUE /\ backendId = 1 /\ range = 1
  /\ observe = {"server", "callbacks", "onopen", "onmessage", "onclose",
                "onerror"}
NextCallbacks ==
  \/ \E throws \in {FALSE} : Mount(throws)
  \/ \E e \in BOOLEAN, throws \in {FALSE} : SetEnabled(e, throws)
  \/ \E throws \in {FALSE} : ReconnectTimerFires(throws)
  \/ \E s \in SockIds : OnOpen(s)
  \/ \E s \in SockIds : OnError(s)
  \/ \E s \in SockIds : OnClose(s)
  \/ \E s \in SockIds, cs \in BOOLEAN : OnStats(s, cs, FALSE)
  \/ \E replace \in BOOLEAN, track \in BOOLEAN : SetCallbacks(replace, track)
SpecCallbacks == InitCallbacks /\ [][NextCallbacks]_vars

\* The hook under a consumer whose backend identifier comes and goes while
\* the hook stays enabled.
InitBackend ==
  /\ InitHook /\ NoDashboard
  /\ enabled = TRUE /\ backendId = Undef /\ range = 1
  /\ observe = {"onopen", "params"}
NextBackend ==
  \/ Lifecycle
  \/ \E b \in {Undef, 1} : SetParams(b, range)
SpecBackend == InitBackend /\ [][NextBackend]_vars

\* The proxy panel: the proxies arrive, the user selects among them, the
\* backend answers in any order.
InitPanel ==
  /\ InitHook /\ NoDashboard
  /\ enabled = FALSE /\ backendId = Undef /\ range = 1
  /\ observe = {}
NextPanel ==
  \/ \E proxies \in {<<"A", "B", "C">>, <<"C", "B">>} : DataArrives(proxies)
  \/ \E chain \in Chains : handleProxyClick(chain)
  \/ \E chain \in Chains : DetailsLoaded(chain)
  \/ \E chain \in Chains : DetailsFailed(chain)
SpecPanel == InitPanel /\ [][NextPanel]_vars

\* The service worker under every request, network outcome and cache write
\* outcome.
InitWorker ==
  /\ InitHook /\ NoDashboard
  /\ enabled = FALSE /\ backendId = Undef /\ range = 1
  /\ observe = {}
NextWorker ==
  \E request \in Requests, net \in NetworkOutcomes, putFails \in BOOLEAN :
    FetchEvent(request, net, putFails)
SpecWorker == InitWorker /\ [][NextWorker]_vars

\* getPageNumbers for every page count up to MaxPages and every current
\* page, and the buttons of the row.
InitPager ==
  /\ InitHook
  /\ enabled = FALSE /\ backendId = Undef /\ range = 1
  /\ NoPage /\ NoPanel /\ NoServiceWorker
  /\ observe = {}
  /\ domainTotalPages \in 1..MaxPages
  /\ domainPage \in 1..domainTotalPages
  /\ pageNumbers = <<>>
NextPager ==
  \/ RenderPagination
  \/ PreviousPage
  \/ \E idx \in 1..7 : PageButton(idx)
  \/ NextPage
SpecPager == InitPager /\ [][NextPager]_vars

\* getWsUrl under every configuration of the deployment.
Falsy == {"undefined", ""}
InitUrl ==
  /\ InitHook
  /\ enabled = TRUE /\ backendId = 1 /\ range = 1
  /\ activeTab = "overview" /\ autoRefresh = TRUE /\ timePreset = "24h"
  /\ observe = {}
  /\ NoPanel /\ NoPager /\ NoServiceWorker
  /\ runtimeConfig \in
       [WS_URL : Falsy \cup {"wss://push.example/ws"},
        WS_PORT : {"undefined", "8082"},
        WS_HOST : {"undefined", "ws.example"}]
  /\ processEnv \in
       [NEXT_PUBLIC_WS_URL : Falsy \cup {"ws://env.example:9000"},
        NEXT_PUBLIC_WS_PORT : {"undefined", "3102"}]
  /\ location \in
       {NoWindow} \cup
       [protocol : {"http:", "https:"}, hostname : {"dash.example"},
        port : {"", "3000"}]
  /\ ~HasWindow =>
       runtimeConfig =
         [WS_URL |-> "undefined", WS_PORT |-> "undefined",
          WS_HOST |-> "undefined"]
  /\ wsUrl = "unresolved"
ResolveWsUrl ==
  /\ wsUrl = "unresolved"
  /\ wsUrl' = getWsUrl
  /\ UNCHANGED <<optVars, connVars, lastMessage, subs, histVars, dashVars,
                 probeVars, pollTimers, runtimeConfig, processEnv, location,
                 callbackVars, invoked, uiVars>>
NextUrl == ResolveWsUrl
SpecUrl == InitUrl /\ [][NextUrl]_vars

(***************************************************************************)
(* Properties.                                                             *)
(***************************************************************************)
\* C1: a handler of a superseded socket (one that is no longer the socket
\* in wsRef because a newer connect() replaced it) never runs and so never
\* changes status, the backoff counter, the timers, lastMessage or latency.
C1_StaleHandlerNeverActs ==
  last.op \in {"onopen", "onmessage", "onerror", "onclose"} => ~last.stale

\* C2 as stated: the delay of the k-th close since the last successful open
\* is min(3000 * 2^k, 30000), k = 0, 1, 2, ...
C2_DelayFollowsClosesSinceOpen ==
  closesSinceOpen > 0 =>
    lastDelay = Min(3000 * Pow2(closesSinceOpen - 1), 30000)

\* C2 amended: the delay of the k-th close since the last successful open,
\* disconnect() or run of the enable effect is min(3000 * 2^k, 30000).
C2_DelayFollowsStreak ==
  streak > 0 => lastDelay = Min(3000 * Pow2(streak - 1), 30000)

\* six closes in a row: 3000, 6000, 12000, 24000, 30000, 30000
C2_Witness == streak = 6 /\ closesSinceOpen = 6 /\ lastDelay = 30000

\* C3: from a successful open to the next close the attempt counter is 0,
\* and that close schedules the reconnect after 3000 ms, however many
\* failures preceded the open.
C3_OpenResetsBackoff ==
  /\ closesSinceOpen = 0 => reconnectAttemptsRef = 0
  /\ closesSinceOpen = 1 => lastDelay = 3000

\* the first close after an open that ended a streak of two failures or more
C3_Witness == closesSinceOpen = 1 /\ prevStreak /\ lastDelay = 3000

\* C4: a step sends a subscribe frame only on an open socket and only for
\* the parameters current at that step, so parameters applied while no
\* connection is open are never sent on their own; the step in which the
\* connection opens sends exactly one frame, for the latest parameters
\* (which name a backend).
C4_OnlyLatestSubscriptionSent ==
  /\ tx # <<>> =>
       /\ wsRef # 0 /\ sock[wsRef] = "OPEN"
       /\ tx = <<SubscribeFrame(backendId, range)>>
  /\ (last.op = "onopen" /\ backendId # Undef) =>
       tx = <<SubscribeFrame(backendId, range)>>

\* the connection opens after three parameter changes made while closed
C4_Witness ==
  /\ last.op = "onopen" /\ changesWhileClosed >= 3
  /\ tx = <<SubscribeFrame(backendId, range)>>

\* C7: right after disconnect() status is disconnected, wsRef is empty, no
\* reconnect timer is pending, no ping interval is running and the attempt
\* counter is 0.
C7_DisableLeavesNothing ==
  last.op \in {"disable", "disconnect"} =>
    /\ status = "disconnected"
    /\ wsRef = 0
    /\ reconnectTimerRef # "pending" /\ leakedReconnect = 0
    /\ pingIntervalRef = "null" /\ ~leakedPing
    /\ reconnectAttemptsRef = 0

\* C8: from disconnect() until the next enable or connect() call, status
\* stays disconnected and no socket is connecting or open.
C8_DisabledStaysDisconnected ==
  (mounted /\ ~wanted) =>
    /\ status = "disconnected"
    /\ ReadyStateOf(Conn) \notin {"CONNECTING", "OPEN"}

\* C9: while the hook is wanted connected and its socket is not open, a
\* connection attempt is under way or bound to come: the socket is
\* connecting, its close event is still to be delivered, or a reconnect
\* timer is pending.
C9_FailureIsRetried ==
  (mounted /\ wanted /\ ReadyStateOf(Conn) # "OPEN") =>
    \/ ReadyStateOf(Conn) \in {"CONNECTING", "CLOSING", "ERRORED"}
    \/ reconnectTimerRef = "pending"
    \/ leakedReconnect > 0

\* C5: a pull result never replaces a push-written entry of a key that push
\* is serving when the result arrives (the key is the view's current one,
\* the connection is connected, the view is on the push allow-list and a
\* frame for the current subscription has arrived), whenever the pull was
\* requested.
C5_PullNeverOverwritesPush ==
  last.op = "pull" => ~(pulled.replaced = "push" /\ pulled.auth)

\* C6: no step removes an entry from the cache; whenever the connection is
\* not connected or the tab is off the push allow-list, the pull queries of
\* the views on display are enabled; and a successful pull result is written
\* to its key whatever it finds there, a newer push value included.
C6_PullTakesOverFromPush ==
  [][/\ \A k \in QueryKeys :
          queryCache[k].prov # "none" => queryCache'[k].prov # "none"
     /\ (/\ mounted' /\ backendId' # Undef
         /\ ~(status' = "connected" /\ isWsSummaryTab(activeTab')))
        => /\ SummaryQueryEnabled'
           /\ needsCountries' => CountriesQueryEnabled'
     /\ last'.op = "pull" => queryCache'[pulled'.key].prov = "pull"]_vars

\* the connection has closed and a pull requested before the push frame
\* replaces the push-written entry
C6_Witness ==
  /\ last.op = "pull" /\ pulled.replaced = "push" /\ pulled.older
  /\ status # "connected"
  /\ queryCache[pulled.key].prov = "pull"

\* C10: the summary pull is suppressed only when the connection is
\* connected, the tab is on the push allow-list and a frame for the current
\* subscription has arrived; and the pushed summary or its country
\* breakdown is shown in place of the pulled one only then.
C10_AuthoritativeNeedsFrame ==
  /\ (mounted /\ backendId # Undef /\ ~SummaryQueryEnabled) =>
       (status = "connected" /\ isWsSummaryTab(activeTab) /\ fresh)
  /\ (wsRealtimeActive /\ lastMessage # Null) => fresh
  /\ hasWsCountries => fresh

\* C16: a connect() call made while the socket in wsRef is connecting or
\* open creates no socket and leaves status, both timers and the attempt
\* counter as they were.
C16_ConnectIsIdempotent ==
  [][(last'.op = "connect" /\ ReadyStateOf(Conn) \in {"OPEN", "CONNECTING"})
       => UNCHANGED connVars]_vars

\* connect() was called on an open connection
C16_Witness ==
  /\ last.op = "connect" /\ ReadyStateOf(Conn) = "OPEN"
  /\ status = "connected" /\ pingIntervalRef = "running"

\* C19: the close event of the socket in wsRef sets status to disconnected,
\* stops the ping interval, schedules exactly one reconnect timer with the
\* delay of the current attempt counter and then advances the counter by
\* one; its error event sets status to error and is followed by that close
\* event in the same task.
C19_CloseAndErrorScheduleReconnect ==
  [][/\ (/\ wsRef # 0 /\ wsRef' = wsRef
         /\ sock[wsRef] # "CLOSED" /\ sock'[wsRef] = "CLOSED")
        => /\ status' = "disconnected"
           /\ pingIntervalRef' = "null"
           /\ reconnectTimerRef' = "pending"
           /\ leakedReconnect' =
                leakedReconnect +
                  (IF reconnectTimerRef = "pending" THEN 1 ELSE 0)
           /\ lastDelay' = Min(3000 * Pow2(reconnectAttemptsRef), 30000)
           /\ reconnectAttemptsRef' = reconnectAttemptsRef + 1
     /\ (/\ wsRef # 0 /\ wsRef' = wsRef
         /\ sock[wsRef] # "ERRORED" /\ sock'[wsRef] = "ERRORED")
        => /\ status' = "error"
           /\ \A s \in SockIds : s # wsRef => sock'[s] # "ERRORED"]_vars

\* the second close in a row of the socket in wsRef: 6000 ms
C19_Witness ==
  /\ wsRef # 0 /\ sock[wsRef] = "CLOSED"
  /\ status = "disconnected" /\ pingIntervalRef = "null"
  /\ reconnectTimerRef = "pending"
  /\ streak = 2 /\ reconnectAttemptsRef = 2 /\ lastDelay = 6000

\* C15: with a backend identifier, the step in which status becomes
\* connected sends exactly one subscribe frame, for the current options;
\* a change of a subscription field while status is connected and the
\* socket is open sends exactly one frame, for the new options, and leaves
\* the socket and status alone; every field of the frame is a dependency
\* of the effect.
C15_SubscribeOnConnectAndChange ==
  [][/\ (status # "connected" /\ status' = "connected" /\ backendId' # Undef)
        => tx' = <<SubscribeFrame(backendId', range')>>
     /\ (/\ status = "connected" /\ ReadyStateOf(Conn) = "OPEN"
         /\ enabled' = enabled
         /\ <<backendId', range'>> # <<backendId, range>>
         /\ backendId' # Undef)
        => /\ tx' = <<SubscribeFrame(backendId', range')>>
           /\ wsRef' = wsRef /\ sock' = sock /\ status' = "connected"
     /\ SubscribeFrameFields \subseteq SubscribeDeps]_vars

\* a frame sent by a step other than the one that opened the connection
C15_Witness ==
  /\ last.op # "onopen" /\ status = "connected"
  /\ tx = <<SubscribeFrame(backendId, range)>>
  /\ wsRef # 0 /\ sock[wsRef] = "OPEN"

\* C11: the keys a stats frame is written to are keys of the backend and
\* the time range the frame was produced for.
C11_FrameWrittenUnderItsOwnKey ==
  last.op = "onmessage" =>
    \A k \in PushedKeys(lastMessage) :
      k[2] = lastMessage.backendId /\ k[3] = lastMessage.range

\* C12: a stats frame writes the summary entry of the current backend and
\* range with provenance push, writes the countries entry exactly if it
\* embeds countryStats and the devices entry exactly if it embeds
\* deviceStats, and leaves every other entry as it was.
C12_FrameFansOut ==
  [][last'.op = "onmessage" =>
       /\ queryCache'[<<"summary", backendId, range>>].prov = "push"
       /\ IF lastMessage'.countryStats
          THEN queryCache'[<<"countries", backendId, range>>].prov = "push"
          ELSE queryCache'[<<"countries", backendId, range>>] =
                 queryCache[<<"countries", backendId, range>>]
       /\ IF lastMessage'.deviceStats
          THEN queryCache'[<<"devices", backendId, range>>].prov = "push"
          ELSE queryCache'[<<"devices", backendId, range>>] =
                 queryCache[<<"devices", backendId, range>>]
       /\ \A k \in QueryKeys :
            <<k[2], k[3]>> # <<backendId, range>> =>
              queryCache'[k] = queryCache[k]]_vars

\* a frame with countries and without devices arrives when both entries
\* exist: the devices entry is still there
C12_Witness ==
  /\ last.op = "onmessage"
  /\ lastMessage.countryStats /\ ~lastMessage.deviceStats
  /\ queryCache[<<"summary", backendId, range>>].prov = "push"
  /\ queryCache[<<"countries", backendId, range>>].prov = "push"
  /\ queryCache[<<"devices", backendId, range>>].prov = "push"

\* C17: a step that sends a ping changes neither status nor a socket nor a
\* timer, however many pings are unanswered; a pong changes nothing but
\* latency; and a reconnect timer is only set by a step in which a socket's
\* close event is delivered.
C17_ProbesAreAdvisory ==
  [][/\ tx' = <<PingFrame>> =>
          UNCHANGED <<connVars, latency, lastMessage, queryCache>>
     /\ last'.op = "pong" =>
          UNCHANGED <<connVars, lastMessage, queryCache, lastPingTimeRef>>
     /\ (\/ reconnectTimerRef # "pending" /\ reconnectTimerRef' = "pending"
         \/ leakedReconnect' > leakedReconnect)
        => \E s \in SockIds :
             /\ sock[s] \in {"CONNECTING", "OPEN", "CLOSING", "ERRORED"}
             /\ sock'[s] \in {"CLOSED", "NONE"}]_vars

\* two pings in a row without a pong; the connection is as it was
C17_Witness ==
  /\ unanswered >= 2 /\ tx = <<PingFrame>>
  /\ status = "connected" /\ wsRef # 0 /\ sock[wsRef] = "OPEN"
  /\ pingIntervalRef = "running" /\ reconnectTimerRef # "pending"

\* C18: a frame that does not parse, has an unknown type tag or is a stats
\* frame without data changes neither status, the socket, the timers, the
\* attempt counter, lastMessage, latency nor the cache, and the socket
\* keeps receiving.
C18_BadFrameIsDiscarded ==
  [][last'.op = "badframe" =>
       /\ UNCHANGED <<connVars, lastMessage, latency, lastPingTimeRef,
                      queryCache, inflight, optVars>>
       /\ wsRef # 0 /\ sock'[wsRef] = "OPEN"]_vars

\* a stats frame is processed on a connection that discarded a frame
C18_Witness ==
  /\ discarded /\ last.op = "onmessage" /\ lastMessage # Null
  /\ status = "connected"
  /\ queryCache[<<"summary", backendId, range>>].prov = "push"

\* C13: with auto-refresh on, the polling interval is the long one (30 s)
\* exactly while push serves the tab on display (the connection is connected
\* and the tab is on the push allow-list), and it is the default one (5 s)
\* in every other state.
C13_CadenceFollowsPushAuthority ==
  (mounted /\ autoRefresh) =>
    /\ PollingIntervalMs = reducedIntervalMs <=>
         (status = "connected" /\ isWsSummaryTab(activeTab))
    /\ ~(status = "connected" /\ isWsSummaryTab(activeTab)) =>
         PollingIntervalMs = defaultIntervalMs

\* C14: while auto-refresh is on and a backend is active, every view on
\* display either is served by push (connected, a frame for the current
\* subscription has arrived and it carries the view) or has its pull query
\* enabled with a polling interval running.
C14_EveryViewIsFed ==
  (mounted /\ autoRefresh /\ backendId # Undef) =>
    \A view \in Views :
      (view = "countries" => needsCountries) =>
        \/ /\ wsRealtimeActive /\ fresh
           /\ view = "countries" => lastMessage.countryStats
        \/ QueryEnabled(view) /\ PollingIntervalMs # 0

\* C20: when a pull request for the key a view is showing fails, no cache
\* entry changes, what the page shows for the view is what it showed before
\* (never nothing in place of a value), and the view's error flag is up.
C20_PullFailureKeepsValueAndFlags ==
  [][last'.op = "failure" =>
       /\ queryCache' = queryCache
       /\ \A q \in inflight \ inflight' :
            q.key = CurrentKey(q.key[1]) =>
              /\ QueryData(q.key[1])' = QueryData(q.key[1])
              /\ q.key[1] = "summary" =>
                   data' = data /\ effectiveSummaryError'
              /\ q.key[1] = "countries" =>
                   countryData' = countryData /\ effectiveCountriesError'
    ]_vars

\* C21: what the page shows for the summary and for the countries is the
\* cache entry under the current (backend, range) key: a value is shown
\* only if that entry exists, it is that entry's value (a push-written
\* entry when the pushed message is shown), and nothing is shown only when
\* there is no entry.
C21_ExposedIsCacheEntry ==
  mounted =>
    /\ data = "wsSummary" =>
         /\ HasCachedData(CurrentKey("summary"))
         /\ queryCache[CurrentKey("summary")].prov = "push"
    /\ data = "summaryQuery" => QueryData("summary") = CurrentKey("summary")
    /\ data = "null" => ~HasCachedData(CurrentKey("summary"))
    /\ countryData = "wsSummary" =>
         /\ HasCachedData(CurrentKey("countries"))
         /\ queryCache[CurrentKey("countries")].prov = "push"
    /\ countryData = "countriesQuery" =>
         QueryData("countries") = CurrentKey("countries")
    /\ countryData = "empty" => ~HasCachedData(CurrentKey("countries"))

\* C22: two writes to the same key, each a push or a pull, leave the entry
\* with the same value in either order.
C22_CacheWritesCommute ==
  \A k \in QueryKeys, w1 \in CacheWrites, w2 \in CacheWrites :
    CacheWrite(CacheWrite(queryCache[k], k[1], w1), k[1], w2) =
      CacheWrite(CacheWrite(queryCache[k], k[1], w2), k[1], w1)

\* C24: at most one socket at a time is connecting, open or closing with
\* its handlers still attached.
C24_AtMostOneLiveSocket ==
  Cardinality({s \in SockIds :
                 sock[s] \in {"CONNECTING", "OPEN", "CLOSING", "ERRORED"}})
    <= 1

\* C23: the intervals that run are the ones the effects of the current
\* render created, and none runs after unmount or with auto-refresh off:
\* no tick of a torn-down interval can fire.  Clearing an interval a second
\* time, or one that is not running, changes nothing.
C23_CancelledScheduleStaysCancelled ==
  /\ pollTimers = IF mounted THEN RollingTimer \cup FixedTimer ELSE {}
  /\ ~autoRefresh => pollTimers = {}
  /\ \A x \in [effect : {"rolling", "fixed"},
               ms : {defaultIntervalMs, reducedIntervalMs}] :
       /\ clearInterval(clearInterval(pollTimers, {x}), {x}) =
            clearInterval(pollTimers, {x})
       /\ x \notin pollTimers => clearInterval(pollTimers, {x}) = pollTimers
       /\ clearInterval(pollTimers, {}) = pollTimers

\* the page unmounted while an interval was due to be running
C23_Witness ==
  last.op = "unmount" /\ ~mounted /\ pollTimers = {}

\* C25: a tick or a manual refresh never changes the preset or the cache.
\* With a fixed range it leaves the range alone, sends nothing and puts a
\* request in flight for every enabled query; with a rolling preset the
\* range becomes the window recomputed from the preset, and a changed range
\* is re-subscribed on the open connection.
C25_RollingMovesFixedRefetches ==
  [][last'.op \in {"tick", "refresh"} =>
       /\ UNCHANGED <<timePreset, queryCache, backendId>>
       /\ ~isRollingTimePreset(timePreset) =>
            /\ range' = range /\ tx' = <<>>
            /\ \A view \in Views :
                 QueryEnabled(view) =>
                   \E q \in inflight' : q.key = CurrentKey(view)
       /\ (/\ isRollingTimePreset(timePreset) /\ range' # range
           /\ wsRealtimeActive /\ backendId # Undef) =>
            tx' = <<SubscribeFrame(backendId, range')>>
    ]_vars

\* a tick of the rolling interval moved the window on a connected page
C25_Witness ==
  /\ last.op = "tick" /\ isRollingTimePreset(timePreset)
  /\ tx = <<SubscribeFrame(backendId, range)>>

\* C26: while push is enabled and connected the summary query is disabled,
\* no fixed-preset interval runs and no summary request is started; when
\* push is not enabled and connected the summary query of an active
\* backend is enabled, and with auto-refresh on and a fixed range the
\* fixed-preset interval runs.
C26_PushDrivenSuppressesSummaryPull ==
  [][/\ mounted' =>
          /\ wsRealtimeActive' =>
               /\ ~SummaryQueryEnabled'
               /\ \A x \in pollTimers' : x.effect # "fixed"
          /\ (~wsRealtimeActive' /\ backendId' # Undef) =>
               SummaryQueryEnabled'
          /\ (/\ ~wsRealtimeActive' /\ autoRefresh'
              /\ ~isRollingTimePreset(timePreset')) =>
               \E x \in pollTimers' : x.effect = "fixed"
     /\ \A k \in {q.key : q \in inflight'} \ {q.key : q \in inflight} :
          k[1] = "summary" => ~wsRealtimeActive /\ ~wsRealtimeActive'
    ]_vars

\* push is connected on a page with a fixed range: no interval runs
C26_Witness ==
  /\ mounted /\ autoRefresh /\ wsRealtimeActive
  /\ ~isRollingTimePreset(timePreset) /\ pollTimers = {}

\* C27: once the page is unmounted, or auto-refresh is off, the tab is off
\* the push allow-list or no backend is active, the hook is disabled and
\* disconnected: no socket, no reconnect timer and no ping interval is
\* left.  No polling interval runs after unmount or with auto-refresh off.
C27_NoInterestDisablesPush ==
  /\ (~mounted \/ ~WsEnabled(activeTab, autoRefresh, backendId)) =>
       /\ mounted => ~enabled /\ status = "disconnected"
       /\ wsRef = 0 /\ \A s \in SockIds : sock[s] = "NONE"
       /\ reconnectTimerRef = "null" /\ pingIntervalRef = "null"
       /\ leakedReconnect = 0 /\ ~leakedPing
  /\ (~mounted \/ ~autoRefresh) => pollTimers = {}

\* the user left the push tabs for the rules tab with a backend active
C27_Witness ==
  /\ last.op = "disable" /\ mounted /\ activeTab = "rules"
  /\ autoRefresh /\ backendId # Undef /\ wsRef = 0

\* C28: the resolved URL is the runtime config's WS_URL when that is set;
\* otherwise the environment's NEXT_PUBLIC_WS_URL when that is set;
\* otherwise neither of them but a URL built from the page's location.
C28_WsUrlPriority ==
  wsUrl # "unresolved" =>
    /\ Truthy(runtimeConfig.WS_URL) => wsUrl = runtimeConfig.WS_URL
    /\ (~Truthy(runtimeConfig.WS_URL)
        /\ Truthy(processEnv.NEXT_PUBLIC_WS_URL)) =>
         wsUrl = processEnv.NEXT_PUBLIC_WS_URL
    /\ (/\ ~Truthy(runtimeConfig.WS_URL)
        /\ ~Truthy(processEnv.NEXT_PUBLIC_WS_URL)
        /\ HasWindow) =>
         \E port \in {"3002", "8082", "3102"} :
           wsUrl = (IF location.protocol = "https:" THEN "wss" ELSE "ws")
                   \o "://" \o Or(runtimeConfig.WS_HOST, location.hostname)
                   \o ":" \o port

\* both overrides are set and the runtime config wins
C28_Witness ==
  /\ Truthy(runtimeConfig.WS_URL) /\ Truthy(processEnv.NEXT_PUBLIC_WS_URL)
  /\ wsUrl = runtimeConfig.WS_URL

\* C29: with no WS_URL in the runtime config and none in the environment,
\* the resolved URL is the page's own origin (wss for an https page, same
\* host and port) followed by /_cm_ws.
C29_DefaultIsSameOrigin ==
  (/\ wsUrl # "unresolved" /\ HasWindow
   /\ ~Truthy(runtimeConfig.WS_URL)
   /\ ~Truthy(processEnv.NEXT_PUBLIC_WS_URL)) =>
    wsUrl = SameOrigin \o "/_cm_ws"

\* C30: a render that replaces the callbacks or trackLastMessage changes
\* nothing of the connection: status, socket, timers, attempt counter and
\* the server's subscriptions stay and no frame is sent.  Every handler
\* that calls a callback calls the ones supplied last, and a stats frame
\* changes lastMessage only while trackLastMessage is on.
C30_CallbacksReplacedInPlace ==
  [][/\ last'.op = "callbacks" =>
          /\ UNCHANGED <<connVars, optVars, subs, lastMessage>>
          /\ tx' = <<>>
     /\ last'.op \in CallbackOps =>
          /\ invoked' = callbacksRef'
          /\ \A v \in 0..MaxCallbacks : v < callbacksRef' => invoked' # v
     /\ (last'.op = "onmessage" /\ ~trackLastMessageRef) =>
          lastMessage' = lastMessage
    ]_vars

\* a frame arrives after the callbacks were replaced twice on one connection
C30_Witness ==
  /\ last.op = "onmessage" /\ callbacksRef = MaxCallbacks
  /\ invoked = callbacksRef /\ status = "connected"

\* C31: at most one reconnect timer is pending and it is the one in
\* reconnectTimerRef; none is pending while a socket is connecting or open.
C31_ReconnectTimerIsTracked ==
  /\ leakedReconnect = 0
  /\ reconnectTimerRef = "pending" =>
       \A s \in SockIds : sock[s] \notin {"CONNECTING", "OPEN"}

\* C32: at most one ping interval runs and it is the one in pingIntervalRef;
\* it runs only between the open and the close event of the socket in
\* wsRef.
C32_PingIntervalFollowsSocket ==
  /\ ~leakedPing
  /\ pingIntervalRef = "running" =>
       /\ wsRef # 0
       /\ sock[wsRef] \in {"OPEN", "CLOSING", "ERRORED"}

\* C33: a step that sends a frame, subscribe or ping, sends it on the socket
\* in wsRef and that socket is OPEN when the frame is sent; with any other
\* ready state, or without a socket, nothing is sent, whatever status says.
C33_SendOnlyOnOpenSocket ==
  [][tx' # <<>> => (wsRef' # 0 /\ sock'[wsRef'] = "OPEN")]_vars

\* a ping was sent on the open socket
C33_Witness ==
  /\ tx = <<PingFrame>> /\ wsRef # 0 /\ sock[wsRef] = "OPEN"
  /\ status = "connected"

\* C35: lastMessage changes only in a step that receives a stats frame and
\* latency only in a step that receives a pong; a step that disables the
\* hook, closes a socket or creates one leaves both as they were.
C35_LastMessageAndLatencySurvive ==
  [][/\ lastMessage' # lastMessage => last'.op = "onmessage"
     /\ latency' # latency => last'.op = "pong"
     /\ (enabled' # enabled \/ sock' # sock \/ wsRef' # wsRef) =>
          UNCHANGED <<lastMessage, latency>>
    ]_vars

\* a payload and a latency are still there after the socket closed and the
\* reconnect timer created the next one
C35_Witness ==
  /\ lastMessage # Null /\ latency = "measured"
  /\ reconnectTimerRef = "fired" /\ status = "connecting"

\* C36: a step that ends with the backend identifier undefined sends no
\* subscribe frame, whatever the connection's state; a step in which the
\* identifier becomes defined while status is connected and the socket is
\* open sends exactly one, for that backend.
C36_NoBackendNoSubscribe ==
  [][/\ backendId' = Undef =>
          \A i \in 1..Len(tx') : tx'[i].type # "subscribe"
     /\ (/\ backendId = Undef /\ backendId' # Undef
         /\ status = "connected" /\ ReadyStateOf(Conn) = "OPEN"
         /\ enabled' = enabled)
        => tx' = <<SubscribeFrame(backendId', range')>>
    ]_vars

\* the backend became defined on an open connection and was subscribed to
C36_Witness ==
  /\ last.op = "params" /\ backendId = 1
  /\ tx = <<SubscribeFrame(1, range)>>
  /\ status = "connected" /\ wsRef # 0 /\ sock[wsRef] = "OPEN"

\* C34: while no detail request is in flight, the lists shown are the
\* response for the selected proxy (or empty after a failure); while the
\* request of the selected proxy is in flight, loading is set.
C34_DetailsFollowSelection ==
  /\ (Pending = {} /\ selectedProxy # NoProxy) =>
       /\ proxyDomains \in
            {getProxyDomains(selectedProxy), NoRows("domains")}
       /\ proxyIPs \in {getProxyIPs(selectedProxy), NoRows("ips")}
  /\ (selectedProxy # NoProxy /\ selectedProxy \in Pending) => loading

\* C37: a fetch event for a request that is not GET, is cross-origin, is
\* not http(s), or whose path starts with /api/ or /_next/webpack-hmr gets
\* no answer from the worker and leaves the cache as it was; the cache
\* changes only by the request of a response with status 200, and a
\* cached response is the answer only when the network fetch failed.
C37_WorkerSkipsAndCachesOnly200 ==
  [][LET ev == swEvent'
         url == ev.request.url
         excluded ==
           \/ ev.request.method # "GET"
           \/ Origin(url) # Origin(SelfLocation)
           \/ url.protocol \notin {"http:", "https:"}
           \/ startsWith(url.pathname, ApiPrefix)
           \/ startsWith(url.pathname, HmrPrefix)
     IN /\ excluded => (ev.answer = "browser" /\ ~ev.put
                         /\ swCache' = swCache)
        /\ ev.put => (ev.net.ok /\ ev.net.status = 200)
        /\ swCache' \subseteq swCache \cup {url}
        /\ swCache' # swCache => ev.put
        /\ ev.answer = "cache" => (~ev.net.ok /\ url \in swCache)
    ]_vars

\* the network failed for an asset an earlier 200 response had put into
\* the cache, and the cached response was the answer
C37_Witness ==
  /\ swEvent.answer = "cache" /\ ~swEvent.net.ok
  /\ swEvent.request.url = SelfUrl(StaticPath)

\* C38: for 1 <= currentPage <= totalPages the list getPageNumbers returns
\* contains 1, totalPages and currentPage, its numbers increase strictly,
\* it has at most 7 entries, every ellipsis stands between two numbers
\* that are not consecutive, and for totalPages <= 5 it is 1..totalPages.
C38_PageNumbersWellFormed ==
  pageNumbers # <<>> =>
    LET pages == pageNumbers
        n == Len(pages)
    IN /\ \A want \in {1, domainTotalPages, domainPage} :
            \E i \in 1..n : pages[i] = want
       /\ \A i \in 1..n, j \in 1..n :
            (i < j /\ pages[i] # Ellipsis /\ pages[j] # Ellipsis)
              => pages[i] < pages[j]
       /\ n <= 7
       /\ \A i \in 1..n :
            pages[i] = Ellipsis =>
              /\ 1 < i /\ i < n
              /\ pages[i - 1] # Ellipsis /\ pages[i + 1] # Ellipsis
              /\ pages[i + 1] > pages[i - 1] + 1
       /\ domainTotalPages <= 5 =>
            pages = [i \in 1..domainTotalPages |-> i]

\* a current page in the middle: both ellipses are there
C38_Witness ==
  /\ domainPage = 5 /\ domainTotalPages = 9
  /\ pageNumbers = <<1, Ellipsis, 4, 5, 6, Ellipsis, 9>>

=============================================================================
